---- MODULE Spec2Model ----
(***************************************************************************)
(* renderpyg: the keyframe animation engine of GPUAniSprite (sprite.py)    *)
(* and the input/state machine of Menu (menu.py).                          *)
(*                                                                         *)
(* An object is one record variable whose fields carry the names of the    *)
(* attributes of the Python object.  A method is an operator from the      *)
(* object's record (and the arguments) to the record after the call, so    *)
(* that a method that calls other methods is the composition of their      *)
(* operators.  Python's 0-based indices are kept: seq[i] of the source is  *)
(* PyIndex(seq, i) here.                                                   *)
(***************************************************************************)
EXTENDS Integers, Sequences, FiniteSets, TLC

VARIABLES
    sprite,     \* the GPUAniSprite object
    menu,       \* the Menu object
    hist        \* history of the calls made so far (not program state)

vars == <<sprite, menu, hist>>

(***************************************************************************)
(* Bounds of the model.                                                    *)
(***************************************************************************)
MaxCalls == 4       \* calls of the sprite API other than update()
MaxTime == 300      \* largest time_spent a sprite accumulates, in ms
MaxLoops == 2       \* passes counted below zero by loop_count
MaxTicks == 4       \* handle() ticks of one widget

(***************************************************************************)
(* Python helpers.                                                         *)
(***************************************************************************)
\* seq[i] of Python: 0-based, a negative index counts from the end.
PyIndex(seq, i) == IF i < 0 THEN seq[Len(seq) + i + 1] ELSE seq[i + 1]

\* does seq[i] raise IndexError?
PyIndexError(seq, i) == i >= Len(seq) \/ i < -Len(seq)

\* a % b of Python for b > 0: the result is never negative.
PyMod(a, b) == a % b

Min(a, b) == IF a < b THEN a ELSE b
Max(a, b) == IF a > b THEN a ELSE b
Abs(a) == IF a < 0 THEN -a ELSE a

RECURSIVE SumSeq(_)
SumSeq(seq) == IF seq = <<>> THEN 0 ELSE Head(seq) + SumSeq(Tail(seq))

(***************************************************************************)
(* GPUAniSprite                                                            *)
(***************************************************************************)
loop_types == {"forward", "back_forth"}

\* keyfr(frame, duration): one keyframe.
keyfr(frame, duration) == [frame |-> frame, duration |-> duration]

\* The animations of the scenarios: animation `id` has K keyframes of
\* 100 ms each that show the images 10*id, 10*id+1, ...
Animation(id, K) == [i \in 1..K |-> keyfr(10 * id + i - 1, 100)]
AnimId(animation) ==
    IF animation = <<>> THEN 0 ELSE animation[1].frame \div 10

\* a frame list with no keyframe in it
NoFrames == <<>>

BaseAnims == {Animation(1, 3), Animation(3, 1)}
InterruptAnims == {Animation(4, 2)}
QueueAnims == <<Animation(5, 1), Animation(6, 2), Animation(7, 1)>>
Callbacks == <<"f", "g">>
LoopCounts == {-1, 0, 1, 2}
Deltas == {100, 150, 250}
Speeds == {0, 1}

\* A kinematic channel (velocity, rotation, scaling, fading, coloring) is
\* None or a rate per second.  Position, angle, scale and alpha are kept
\* in thousandths of their unit, so that a rate applied for delta
\* milliseconds is an integer.
Off == <<>>
On(rate) == <<rate>>
Unit == 1000

\* kwargs.get(k, default) of a keyframe
Kw(kf, k, default) == IF k \in DOMAIN kf THEN kf[k] ELSE default

\* GPUAniSprite.__init__: the attributes after construction; set_frame(0)
\* leaves frame 0 with duration 0.
SpriteInit ==
    [ anim_frame |-> 0, anim_frames |-> <<>>, loop_type |-> "forward",
      loop_count |-> 0, time_spent |-> 0, held_animation |-> <<>>,
      event_queue |-> <<>>, anim_queue |-> <<>>, speed |-> 1,
      frame |-> 0, duration |-> 0,
      x |-> 0, y |-> 0, angle |-> 0, scale |-> Unit, alpha |-> 255 * Unit,
      velocity |-> Off, rotation |-> Off, scaling |-> Off, fading |-> Off,
      coloring |-> Off,
      called |-> <<>>,       \* the callbacks run so far, in order
      raised |-> "" ]        \* the exception the last call ended with

\* set_frame(frame, duration, **kwargs): shows the keyframe's image and
\* restarts the frame timer; angle, velocity, rotation and scaling stay as
\* they are unless the keyframe gives them, scale, alpha, fading and
\* coloring go back to their defaults unless it gives them, and the sprite
\* is moved to a pos that is not (0, 0).
set_frame(s, kf) ==
    [s EXCEPT !.time_spent = 0, !.frame = kf.frame, !.duration = kf.duration,
              !.angle = IF "angle" \in DOMAIN kf THEN Unit * kf.angle ELSE @,
              !.scale = Unit * Kw(kf, "scale", 1),
              !.alpha = Unit * Kw(kf, "alpha", 255),
              !.velocity = IF "velocity" \in DOMAIN kf
                           THEN On(kf.velocity) ELSE @,
              !.rotation = IF "rotation" \in DOMAIN kf
                           THEN On(kf.rotation) ELSE @,
              !.scaling = IF "scaling" \in DOMAIN kf
                          THEN On(kf.scaling) ELSE @,
              !.fading = IF "fading" \in DOMAIN kf
                         THEN On(kf.fading) ELSE Off,
              !.coloring = IF "coloring" \in DOMAIN kf
                           THEN On(kf.coloring) ELSE Off,
              !.x = IF Kw(kf, "pos", <<0, 0>>) # <<0, 0>>
                    THEN Unit * kf.pos[1] ELSE @,
              !.y = IF Kw(kf, "pos", <<0, 0>>) # <<0, 0>>
                    THEN Unit * kf.pos[2] ELSE @]

stop_animation(s) == [s EXCEPT !.duration = 0]

\* stop(): duration 0 freezes the frame, and every channel is cleared.
stop(s) ==
    [s EXCEPT !.duration = 0, !.velocity = Off, !.rotation = Off,
              !.scaling = Off, !.fading = Off, !.coloring = Off]

\* set_animation(animation, loop_count, loop_type); anim_frames[0] raises
\* IndexError on an empty list, after the assignments before it.
set_animation(s, animation, loop_count, loop_type) ==
    LET t == [s EXCEPT !.anim_frame = 0, !.time_spent = 0,
                       !.anim_frames = animation,
                       !.loop_count = loop_count, !.loop_type = loop_type]
    IN  IF PyIndexError(animation, 0)
        THEN [t EXCEPT !.raised = "IndexError"]
        ELSE set_frame(t, PyIndex(animation, 0))

HeldSnapshotRestart(s) == <<s.anim_frames, 0, s.loop_type, s.loop_count>>

\* the tuple interrupt() saves in held_animation.
HeldSnapshot(s) == <<s.anim_frames, s.anim_frame, s.loop_type, s.loop_count>>

interrupt_first_held(s, animation, loop_type) ==
    set_animation([s EXCEPT !.held_animation =
                       IF @ # <<>> THEN @ ELSE HeldSnapshot(s)],
                  animation, 0, loop_type)

\* interrupt(animation, loop_type)
interrupt(s, animation, loop_type) ==
    set_animation([s EXCEPT !.held_animation = HeldSnapshot(s)],
                  animation, 0, loop_type)

\* _next_animation() returns True: a held or a queued animation was
\* spliced in.
NextAnimationTaken(s) ==
    \/ s.held_animation # <<>>
    \/ s.anim_queue # <<>> /\ s.loop_count <= 0

\* the animation popped from the queue by _next_animation().
PopQueue(s) ==
    LET q == Head(s.anim_queue)
    IN  set_animation([s EXCEPT !.anim_queue = Tail(s.anim_queue)],
                      q[1], q[2], q[3])

_next_animation_keeping_events(s) ==
    IF s.held_animation # <<>>
    THEN [s EXCEPT !.anim_frames = s.held_animation[1],
                   !.anim_frame = s.held_animation[2],
                   !.loop_type = s.held_animation[3],
                   !.loop_count = s.held_animation[4],
                   !.held_animation = <<>>]
    ELSE IF s.anim_queue # <<>> /\ s.loop_count <= 0
    THEN PopQueue(s)
    ELSE IF s.event_queue # <<>> /\ s.loop_count <= 0
    THEN [s EXCEPT !.called = s.called \o s.event_queue]
    ELSE s

\* _next_animation(): the object after the call.
_next_animation(s) ==
    IF s.held_animation # <<>>
    THEN [s EXCEPT !.anim_frames = s.held_animation[1],
                   !.anim_frame = s.held_animation[2],
                   !.loop_type = s.held_animation[3],
                   !.loop_count = s.held_animation[4],
                   !.held_animation = <<>>]
    ELSE IF s.anim_queue # <<>> /\ s.loop_count <= 0
    THEN PopQueue(s)
    ELSE IF s.event_queue # <<>> /\ s.loop_count <= 0
    THEN [s EXCEPT !.called = s.called \o s.event_queue,
                   !.event_queue = <<>>]
    ELSE s

\* set_frame(**anim_frames[i]) of _next_frame, IndexError included.
ShowFrame(s, i) ==
    IF PyIndexError(s.anim_frames, i)
    THEN [s EXCEPT !.raised = "IndexError"]
    ELSE set_frame(s, PyIndex(s.anim_frames, i))

BackIndexNoTurn(anim_length, anim_frame) == anim_length - anim_frame - 1

\* the index _next_frame shows on the way back of a back_forth cycle.
BackIndex(anim_length, anim_frame) == anim_length - anim_frame - 2

\* the end of a cycle in _next_frame, after loop_count -= 1; `wrapshows`
\* is whether the wrap to frame 0 calls set_frame (forward) or not
\* (back_forth).
CycleEnd(s, wrapshows) ==
    LET t == _next_animation(s)
    IN  IF NextAnimationTaken(s) THEN t
        ELSE IF t.loop_count # 0
        THEN IF wrapshows
             THEN ShowFrame([t EXCEPT !.anim_frame = 0], 0)
             ELSE [t EXCEPT !.anim_frame = 0]
        ELSE stop(t)

\* _next_frame()
_next_frame(s) ==
    LET t == [s EXCEPT !.anim_frame = s.anim_frame + 1]
        anim_length == Len(t.anim_frames)
    IN  IF t.loop_type = "forward"
        THEN IF t.anim_frame >= anim_length
             THEN CycleEnd([t EXCEPT !.loop_count = t.loop_count - 1], TRUE)
             ELSE ShowFrame(t, t.anim_frame)
        ELSE IF t.anim_frame < anim_length
             THEN ShowFrame(t, t.anim_frame)
             ELSE IF t.anim_frame < anim_length * 2 - 1
             THEN ShowFrame(t, BackIndex(anim_length, t.anim_frame))
             ELSE CycleEnd([t EXCEPT !.anim_frame = 0,
                                     !.loop_count = t.loop_count - 1], FALSE)

queue_animation_append(s, animation, loop_count, loop_type) ==
    [s EXCEPT !.anim_queue =
        Append(s.anim_queue, <<animation, loop_count, loop_type>>)]

\* queue_animation(animation, loop_count, loop_type)
queue_animation(s, animation, loop_count, loop_type) ==
    IF s.duration = 0
    THEN set_animation(s, animation, loop_count, loop_type)
    ELSE [s EXCEPT !.anim_queue =
              Append(s.anim_queue, <<animation, loop_count, loop_type>>)]

\* queue_event(func)
queue_event(s, func) == [s EXCEPT !.event_queue = Append(s.event_queue, func)]

FrameElapsedInclusive(s) ==
    s.duration # 0 /\ s.time_spent * Abs(s.speed) >= Abs(s.duration)

\* the test of update() that decides a frame transition:
\* duration and time_spent > abs(duration / speed)
FrameElapsed(s) ==
    s.duration # 0 /\ s.time_spent * Abs(s.speed) > Abs(s.duration)

\* `if self.rotation:` and the like: the channel is neither None nor 0.
Active(channel) == channel # Off /\ channel[1] # 0

\* update(delta) down to its test for a frame transition: the frame timer
\* advances and each channel that is set changes its attribute by
\* rate * delta / 1000 * speed; a velocity is an (x, y) pair.
Moved(s, delta) ==
    [s EXCEPT !.time_spent = @ + delta,
              !.x = IF s.velocity # Off
                    THEN @ + s.velocity[1][1] * delta * s.speed ELSE @,
              !.y = IF s.velocity # Off
                    THEN @ + s.velocity[1][2] * delta * s.speed ELSE @,
              !.angle = IF Active(s.rotation)
                        THEN @ + s.rotation[1] * delta * s.speed ELSE @,
              !.scale = IF Active(s.scaling)
                        THEN @ + s.scaling[1] * delta * s.speed ELSE @,
              !.alpha = IF Active(s.fading)
                        THEN Min(Max(@ - s.fading[1] * delta * s.speed, 0),
                                 255 * Unit)
                        ELSE @]

\* an update that carries the time left over into the next frames.
RECURSIVE Consume(_)
Consume(s) ==
    IF FrameElapsed(s) /\ s.raised = ""
    THEN LET left == s.time_spent - s.duration
         IN  Consume([_next_frame(s) EXCEPT !.time_spent = left])
    ELSE s
update_consuming(s, delta) ==
    IF s.speed = 0 THEN s
    ELSE Consume(Moved(s, delta))

update_unfrozen(s, delta) ==
    IF FrameElapsed(Moved(s, delta)) THEN _next_frame(Moved(s, delta))
    ELSE Moved(s, delta)

\* update(delta)
update(s, delta) ==
    IF s.speed = 0 THEN s
    ELSE IF FrameElapsed(Moved(s, delta)) THEN _next_frame(Moved(s, delta))
    ELSE Moved(s, delta)

(***************************************************************************)
(* Menu                                                                    *)
(*                                                                         *)
(* The widget is driven through handle(events), as a modeless caller       *)
(* does.  What one tick reads is an input record:                          *)
(*   events   the batch passed to handle()                                 *)
(*   pointer  where pg.mouse.get_pos() is: on row i of self.rects, on      *)
(*            button i, on a page icon, elsewhere in self.area, outside    *)
(*            of it, or on the pixel (0,0), where _handle_options puts     *)
(*            the extra rect of the button row; x is the offset into the   *)
(*            row, in units of a quarter row                               *)
(*   pressed  pg.mouse.get_pressed()[0]                                    *)
(* self.rects and self.but_rects are kept as their lengths.  No joystick   *)
(* is configured (the default).                                            *)
(***************************************************************************)
RowWidth == 4       \* r.width of a row, in pointer units

Keys == {"K_UP", "K_DOWN", "K_LEFT", "K_RIGHT", "K_RETURN", "K_SPACE",
         "K_ESCAPE", "K_BACKSPACE", "K_OTHER"}

\* the TEXTINPUT events and the one character each carries in event.text
DigitChars == <<"0", "1", "2", "3", "4", "5", "6", "7", "8", "9">>
Digits == { DigitChars[n] : n \in 1..Len(DigitChars) }
TextOf == [TEXT_0 |-> "0", TEXT_7 |-> "7", TEXT_DOT |-> ".", TEXT_X |-> "x"]
TextEvents == DOMAIN TextOf

\* char_map of tfont.py, one character to an element
CharMap ==
    <<" ", "A", "B", "C", "D", "E", "F", "G", "H", "I", "J", "K", "L", "M",
       "N", "O", "P", "Q", "R", "S", "T", "U", "V", "W", "X", "Y", "Z",
       "a", "b", "c", "d", "e", "f", "g", "h", "i", "j", "k", "l", "m",
       "n", "o", "p", "q", "r", "s", "t", "u", "v", "w", "x", "y", "z",
       "0", "1", "2", "3", "4", "5", "6", "7", "8", "9", ".", ",", "?",
       "!", "-", ":", "'", "\"", "_", "=", "+", "<", ">", "~", "@", "/",
       "\\", "|", "(", "%", ")" >>

\* char_map.index(c): the ValueError of a character that is not in it is
\* a result of -1 here
CharIndex(c) ==
    IF \E n \in 1..Len(CharMap) : CharMap[n] = c
    THEN (CHOOSE n \in 1..Len(CharMap) :
             CharMap[n] = c /\ \A k \in 1..(n - 1) : CharMap[k] # c) - 1
    ELSE -1

Pointer(at, i, x) == [at |-> at, i |-> i, x |-> x]
Nowhere == Pointer("outside", 0, 0)

\* the values a handle() call returns.
None == [kind |-> "None"]
Result(kind, key, value) == [kind |-> kind, key |-> key, value |-> value]

\* does the pointer collide with self.rects[i] ?  The extra rect of the
\* button row is Rect(0, 0, 1, 1).
RectHit(m, p, i) ==
    IF m.extra_rect /\ i = m.rects - 1
    THEN p.at = "origin"
    ELSE p.at = "row" /\ p.i = i /\ i < m.rects

\* self.area.collidepoint(pointer): rows, buttons and icons lie in the area.
AreaHit(p) == p.at \notin {"outside", "origin"}

\* the first rect of self.rects under the pointer, as MOUSEMOTION finds it.
Hovered(m, p) == {i \in 0..(m.rects - 1) : RectHit(m, p, i)}

\* self.textinput after a TEXTINPUT event of an editing widget: the
\* character is appended unless the buffer is full or the input type
\* filters it.
TextTyped(m, c) ==
    IF m.input_length # 0 /\ Len(m.textinput) >= m.input_length
    THEN m.textinput
    ELSE IF m.input_type = "int" /\ c \notin Digits
    THEN m.textinput
    ELSE IF m.input_type = "float"
            /\ ~(c \in Digits
                 \/ (c = "." /\ \A n \in 1..Len(m.textinput) :
                                    m.textinput[n] # "."))
    THEN m.textinput
    ELSE Append(m.textinput, c)

\* One event of the loop of _get_input.  g is [m, x, y, select]: the
\* widget, move and select so far.  select is 0 (False), 1 (True) or -1.
GetInputEvent(g, event, p) ==
    LET m == g.m
    IN  IF event = "QUIT" /\ m.can_cancel
        THEN [g EXCEPT !.select = -1]
        ELSE IF event \in TextEvents
        THEN IF m.editing # 0
                THEN [g EXCEPT !.m.textinput = TextTyped(m, TextOf[event])]
                ELSE g
        ELSE IF event \in Keys
        THEN IF m.rects = 0 /\ Len(m.buttons) = 0
                THEN [g EXCEPT !.select = 1]
             ELSE IF event = "K_UP" THEN [g EXCEPT !.y = -1]
             ELSE IF event = "K_DOWN" THEN [g EXCEPT !.y = 1]
             ELSE IF event = "K_LEFT" THEN [g EXCEPT !.x = -1]
             ELSE IF event = "K_RIGHT" THEN [g EXCEPT !.x = 1]
             ELSE IF event = "K_RETURN" THEN [g EXCEPT !.select = 1]
             ELSE IF event = "K_SPACE" /\ m.editing = 0
                THEN [g EXCEPT !.select = 1]
             ELSE IF event = "K_ESCAPE" /\ m.can_cancel
                THEN IF ~m.first_shown THEN [g EXCEPT !.select = -1] ELSE g
             ELSE IF event = "K_BACKSPACE"
                THEN IF m.input_type = ""
                     THEN [g EXCEPT !.m.raised = "AttributeError"]
                     ELSE [g EXCEPT !.m.textinput =
                                       SubSeq(@, 1, Len(@) - 1)]
             ELSE g
        ELSE IF event = "MOUSEMOTION"
        THEN LET m1 == IF Hovered(m, p) # {}
                       THEN [m EXCEPT !.selected =
                                CHOOSE i \in Hovered(m, p) : TRUE]
                       ELSE m
                 m2 == IF p.at = "button" /\ p.i < m1.but_rects
                       THEN [m1 EXCEPT !.selected = m1.rects - 1,
                                       !.bselected = p.i]
                       ELSE m1
             IN  [g EXCEPT !.m = m2]
        ELSE IF event = "MOUSEBUTTONDOWN"
        THEN IF m.page_icons = "unset"
                THEN [g EXCEPT !.m.raised = "AttributeError"]
             ELSE IF m.page_icons = "icons" /\ p.at = "left_icon"
                THEN [g EXCEPT !.x = -1]
             ELSE IF m.page_icons = "icons" /\ p.at = "right_icon"
                THEN [g EXCEPT !.x = 1]
             ELSE IF m.rects # 0 /\ m.selected \notin 0..(m.rects - 1)
                THEN [g EXCEPT !.m.raised = "IndexError"]
             ELSE IF m.rects # 0 /\ RectHit(m, p, m.selected)
                THEN [g EXCEPT !.select = 1]
             ELSE IF ~AreaHit(p) /\ m.can_cancel
                THEN [g EXCEPT !.select = -1]
             ELSE IF Len(m.buttons) # 0 /\ m.bselected \notin 0..(m.but_rects - 1)
                THEN [g EXCEPT !.m.raised = "IndexError"]
             ELSE IF Len(m.buttons) # 0 /\ p.at = "button" /\ p.i = m.bselected
                THEN [g EXCEPT !.m.changeable = 0, !.select = 1]
             ELSE IF m.rects = 0 /\ Len(m.buttons) = 0
                THEN [g EXCEPT !.select = 1]
             ELSE g
        ELSE g

\* the loop with `move.x += ...` and `move.y += ...` in place of the
\* assignments: the moves of the events of a batch add up.
RECURSIVE GetInputLoopAdding(_, _, _)
GetInputLoopAdding(g, events, p) ==
    IF events = <<>> \/ g.m.raised # "" THEN g
    ELSE GetInputLoopAdding(
             [GetInputEvent([g EXCEPT !.x = 0, !.y = 0], Head(events), p)
                 EXCEPT !.x = g.x + @, !.y = g.y + @],
             Tail(events), p)

\* the loop over the events of _get_input; an exception ends it.
RECURSIVE GetInputLoop(_, _, _)
GetInputLoop(g, events, p) ==
    IF events = <<>> \/ g.m.raised # "" THEN g
    ELSE GetInputLoop(GetInputEvent(g, Head(events), p), Tail(events), p)

\* the d-pad and the buttons of the joystick, its axes at rest: joy is
\* what is held, "select", "cancel", "up", "down", "left" or "right", or
\* "idle".
JoyX(joy) == IF joy = "left" THEN -1 ELSE IF joy = "right" THEN 1 ELSE 0
JoyY(joy) == IF joy = "up" THEN -1 ELSE IF joy = "down" THEN 1 ELSE 0
JoySelOf(joy) ==
    IF joy = "select" THEN 1 ELSE IF joy = "cancel" THEN -1 ELSE 0

\* a held joystick fires on the first tick and then repeats.
JoyFires(m) ==
    m.joy_pressed = 0 \/ (m.joy_pressed > 20 /\ m.joy_pressed % 5 = 0)

JoyInputAnyCancel(g, joy) ==
    IF ~g.m.joystick \/ g.m.raised # "" THEN g
    ELSE IF joy = "idle" THEN [g EXCEPT !.m.joy_pressed = 0]
    ELSE [g EXCEPT !.select = IF joy = "cancel" THEN -1 ELSE 1,
                   !.m.joy_pressed = @ + 1]

\* the joystick block of _get_input down to `if self.editing:`; joy_sel
\* is what is left of the button for the editing block.
JoyInput(g, joy) ==
    IF ~g.m.joystick \/ g.m.raised # "" THEN g
    ELSE IF joy = "idle" THEN [g EXCEPT !.m.joy_pressed = 0]
    ELSE IF JoyFires(g.m)
    THEN [g EXCEPT !.x = IF @ # 0 THEN @ ELSE JoyX(joy),
                   !.y = IF @ # 0 THEN @ ELSE JoyY(joy),
                   !.select =
                       IF joy = "cancel"
                       THEN (IF g.m.can_cancel \/ g.m.editing # 0
                             THEN -1 ELSE @)
                       ELSE (IF @ # 0 THEN @ ELSE JoySelOf(joy)),
                   !.joy_sel = JoySelOf(joy),
                   !.m.joy_pressed = @ + 1]
    ELSE [g EXCEPT !.m.joy_pressed = @ + 1]

\* `if self.cur_char:`: neither None nor 0
CharChosen(m) == m.cur_char # <<>> /\ m.cur_char[1] # 0

\* `if move.y:` of the editing block: the scroll starts at the last
\* character of the buffer, or moves one character against move.y.
JoyScrolled(g) ==
    IF g.y = 0 THEN g
    ELSE IF g.m.textinput # <<>> /\ g.m.cur_char = <<>>
    THEN IF CharIndex(g.m.textinput[Len(g.m.textinput)]) < 0
         THEN [g EXCEPT !.m.raised = "ValueError"]
         ELSE [g EXCEPT !.m.cur_char =
                  <<CharIndex(g.m.textinput[Len(g.m.textinput)])>>]
    ELSE [g EXCEPT !.m.cur_char =
             <<(IF @ = <<>> THEN 0 ELSE @[1]) - g.y>>]

\* `if self.cur_char: ... elif move.x > 0:` of the editing block: the
\* character scrolled to, or a space, is appended to the buffer.
JoyAppended(g) ==
    IF g.m.raised # "" THEN g
    ELSE IF CharChosen(g.m)
    THEN IF g.select > 0 \/ g.x > 0
         THEN [g EXCEPT !.m.textinput =
                           Append(@, PyIndex(CharMap,
                               PyMod(g.m.cur_char[1], Len(CharMap)))),
                        !.m.cur_char = <<>>, !.joy_sel = 0, !.select = 0]
         ELSE g
    ELSE IF g.x > 0
    THEN [g EXCEPT !.m.textinput = Append(@, " "),
                   !.m.cur_char = <<>>, !.joy_sel = 0, !.select = 0]
    ELSE g

\* the end of the editing block: cancel or left erases a character, and
\* select = max(select, 0).
JoyErased(g) ==
    IF g.m.raised # "" THEN g
    ELSE IF (g.joy_sel < 0 \/ g.x < 0) /\ Len(g.m.textinput) > 0
    THEN [g EXCEPT !.m.textinput = SubSeq(@, 1, Len(@) - 1),
                   !.m.cur_char = <<>>, !.joy_sel = 0, !.select = 0]
    ELSE [g EXCEPT !.select = Max(@, 0)]

\* `if self.editing:` of the joystick block of _get_input
JoyEditing(g) ==
    IF ~g.m.joystick \/ g.m.raised # "" \/ g.m.editing = 0 THEN g
    ELSE JoyErased(JoyAppended(JoyScrolled([g EXCEPT !.m.editing = @ + 1])))

\* move and select before the first event
NoInput(m) == [m |-> m, x |-> 0, y |-> 0, select |-> 0, joy_sel |-> 0]

\* move and select are decided: _get_input returns
Resolved(g) ==
    IF g.m.raised # "" THEN g
    ELSE [g EXCEPT !.m.steps = Append(@, "input")]

\* the end of _get_input: the widget has been shown, the page icons of
\* this tick are forgotten.
InputDone(g) ==
    IF g.m.raised # "" THEN g
    ELSE [g EXCEPT !.m.first_shown = FALSE, !.m.page_icons = "none"]

_get_input_eager(m, inp) ==
    IF m.raised # "" THEN NoInput(m) ELSE
    Resolved(InputDone(JoyInput(
        GetInputLoop(NoInput([m EXCEPT !.ignore_input = FALSE]),
                     inp.events, inp.pointer), inp.joy)))

\* _get_input(events): [m, x, y, select]; it is not reached when the
\* draw before it raised.
_get_input(m, inp) ==
    IF m.raised # "" THEN NoInput(m)
    ELSE IF m.ignore_input
    THEN Resolved(NoInput([m EXCEPT !.ignore_input = FALSE]))
    ELSE Resolved(InputDone(JoyEditing(JoyInput(
             GetInputLoop(NoInput(m), inp.events, inp.pointer), inp.joy))))

\* _draw_background(): a background given as a callable is called, and
\* what it raises is not caught; inp.back is what the callable does in
\* this tick.
_draw_background(m, inp) ==
    IF m.back_func = "callable" /\ inp.back = "raises"
    THEN [m EXCEPT !.raised = "CallbackError"]
    ELSE m

\* a _draw_* method: `before` is the widget at its _draw_background()
\* call, `after` the widget at its end.
Drawn(before, after, inp) ==
    IF _draw_background(before, inp).raised # ""
    THEN _draw_background(before, inp)
    ELSE [after EXCEPT !.steps = Append(@, "draw")]

\* int(len(items) / max_items + 0.9), computed in tenths
PageCount(L, max_items) == (10 * L + 9 * max_items) \div (10 * max_items)

\* items[a:b] of Python for 0 <= a <= b
PySlice(seq, a, b) == SubSeq(seq, a + 1, Min(b, Len(seq)))

\* the items _handle_select shows on page `page`
PageItems(m, page) ==
    IF page >= 0
    THEN PySlice(m.items, page * m.max_items, (page + 1) * m.max_items)
    ELSE m.items

\* the absolute index _handle_select returns on a confirmation
SelectedIndex(selected, page, max_items) ==
    IF page > 0 THEN selected + page * max_items ELSE selected

\* _draw_select(options): one rect for each row shown, and the page icons
\* when the list is paged.
_draw_select(m, options) ==
    [m EXCEPT !.rects = Len(options),
              !.page_icons = IF options # m.items THEN "icons" ELSE @]

\* self.selected of _handle_select after move.y, for n rows shown
MoveRow(selected, y, n) ==
    LET sel == IF y < 0 THEN selected - 1
               ELSE IF y > 0 THEN selected + 1
               ELSE selected
    IN  Min(PyMod(sel, n), n)

\* page of _handle_select after move.x
MovePage(page, pages, x, y) ==
    IF y = 0 /\ x # 0 /\ page >= 0
    THEN IF x > 0 THEN PyMod(page + 1, pages) ELSE PyMod(page - 1, pages)
    ELSE page

\* the moves of _handle_select; `options` are the rows drawn.
SelectMoved(m, g, options) ==
    [m EXCEPT !.selected = MoveRow(m.selected, g.y, Len(options)),
              !.page = MovePage(m.page, PageCount(Len(m.items), m.max_items),
                                g.x, g.y)]

\* `if select:` of _handle_select; `options` are the rows drawn.
SelectReturned(m, select, options) ==
    IF select = 0 THEN [m EXCEPT !.result = None]
    ELSE IF select > 0
    THEN [m EXCEPT !.alive = FALSE,
                   !.result = Result("item",
                       SelectedIndex(m.selected, m.page, m.max_items),
                       PyIndex(options, m.selected))]
    ELSE [m EXCEPT !.alive = FALSE, !.result = Result("cancel", -1, "")]

\* _handle_select after _draw_select left widget d
SelectDrawn(d, g, options) ==
    IF d.raised # "" THEN d
    ELSE SelectReturned(SelectMoved(d, g, options), g.select, options)

\* _handle_select after _get_input, with `options` the slice of the page
\* that was current when the input was read.
SelectAfterInput(g, options, inp) ==
    IF g.m.raised # "" THEN [g.m EXCEPT !.result = None]
    ELSE SelectDrawn(Drawn([g.m EXCEPT !.rects = 0],
                           _draw_select(g.m, options), inp),
                     g, options)

SelectOnPage(g, inp) == SelectAfterInput(g, PageItems(g.m, g.m.page), inp)

\* _handle_select without `if not self.alive: return`
_handle_select_closed(m, inp) == SelectOnPage(_get_input(m, inp), inp)

\* _handle_select(events)
_handle_select(m, inp) ==
    IF ~m.alive THEN [m EXCEPT !.result = None]
    ELSE SelectOnPage(_get_input(m, inp), inp)

(***************************************************************************)
(* Option descriptors and their normalisation.                             *)
(*                                                                         *)
(* A descriptor is a record: form is "str", "num", "seq" (a tuple or list  *)
(* of strings, with `tail` the length of a trailing (pre, post[, sel])     *)
(* tuple, 0 if there is none) or "dict" (with `has` the keys present and   *)
(* `type` its 'type'), or "none" (None, which cannot be iterated);         *)
(* `nonstr` says that one of the choices is not a str.  An option record of self.items carries every       *)
(* field, the unused ones at their defaults, and the key it is stored      *)
(* under.                                                                  *)
(***************************************************************************)
Descriptor ==
    [ form |-> "dict", type |-> "", has |-> {}, tail |-> 0, text |-> "",
      options |-> <<>>, selected |-> 0, pre |-> "", post |-> "",
      min |-> 0, max |-> 0, step |-> 0, value |-> 0, amount |-> 0,
      nonstr |-> FALSE ]

Label(text) == [Descriptor EXCEPT !.form = "str", !.text = text]
Item(text) == [Descriptor EXCEPT !.form = "seq", !.options = <<text>>]
Toggle(options) == [Descriptor EXCEPT !.form = "seq", !.options = options]
ToggleAt(options, sel) ==
    [Descriptor EXCEPT !.form = "seq", !.options = options, !.tail = 3,
                       !.selected = sel]
ToggleDict(options, sel) ==
    [Descriptor EXCEPT !.type = "OPTION", !.has = {"options", "selected"},
                       !.options = options, !.selected = sel]
Slider(min, max, step, value) ==
    [Descriptor EXCEPT !.type = "SLIDER",
                       !.has = {"min", "max", "step", "value"},
                       !.min = min, !.max = max, !.step = step,
                       !.value = value]

OptionRecord(key, type) ==
    [ key |-> key, type |-> type, text |-> "", options |-> <<>>,
      selected |-> 0, pre |-> "", post |-> "", min |-> 0, max |-> 0,
      step |-> 0, value |-> 0, amount |-> 0,
      shared |-> FALSE ]    \* the record is the dict the caller passed

\* the record is the dict of the caller, not a copy of it
NotCopied(o) == o

\* option.copy(): a dict of the widget's own with the same keys
Copied(o) == [o EXCEPT !.shared = FALSE]

\* the exception the first loop of _process_options raises on a
\* descriptor: option[-1] of an empty sequence.
NewOptionError(d) ==
    IF d.form = "seq" /\ d.options = <<>> /\ d.tail = 0
    THEN "IndexError" ELSE ""

\* the first loop of _process_options for one descriptor: <<record>>, or
\* <<>> for a descriptor that is skipped.
NewOption(key, d) ==
    IF d.form = "none" THEN <<>>
    ELSE IF d.form = "dict"
    THEN IF d.type \in {"OPTION", "SLIDER", "LABEL", "ITEM", "SPACER"}
         THEN << Copied([OptionRecord(key, d.type) EXCEPT
                    !.text = d.text, !.options = d.options,
                    !.selected = d.selected, !.pre = d.pre, !.post = d.post,
                    !.min = d.min, !.max = d.max, !.step = d.step,
                    !.value = d.value, !.amount = d.amount,
                    !.shared = TRUE]) >>
         ELSE <<>>
    ELSE IF d.form = "str"
    THEN << [OptionRecord(key, "LABEL") EXCEPT !.text = d.text] >>
    ELSE IF d.form = "num"
    THEN << [OptionRecord(key, "SPACER") EXCEPT !.amount = d.amount] >>
    ELSE IF Len(d.options) + (IF d.tail > 0 THEN 1 ELSE 0) = 1
    THEN << [OptionRecord(key, "ITEM") EXCEPT !.text = d.options[1]] >>
    ELSE IF d.tail > 0
    THEN << [OptionRecord(key, "OPTION") EXCEPT
               !.options = d.options,
               !.selected = IF d.tail = 3 THEN d.selected ELSE 0,
               !.pre = d.pre, !.post = d.post] >>
    ELSE << [OptionRecord(key, "OPTION") EXCEPT
               !.options = d.options, !.selected = 0] >>

\* int((max - min) / 2) of Python: the quotient truncated towards zero.
HalfRange(min, max) ==
    IF max >= min THEN (max - min) \div 2 ELSE -((min - max) \div 2)

\* which keys the record of a descriptor has: a dict descriptor is copied
\* with the keys it came with.
Has(d, k) == d.form # "dict" \/ k \in d.has

NormalisedFirst(o, d) ==
    IF o.type = "OPTION" THEN [o EXCEPT !.value = PyIndex(o.options, 0)]
    ELSE o

\* the second loop of _process_options for one record: the defaults of a
\* slider, the value of a toggle.
Normalised(o, d) ==
    IF o.type = "SLIDER"
    THEN LET min == IF Has(d, "min") THEN o.min ELSE 0
             max == IF Has(d, "max") THEN o.max ELSE 100
         IN  [o EXCEPT !.min = min, !.max = max,
                       !.value = IF Has(d, "value") THEN o.value
                                 ELSE HalfRange(min, max),
                       !.step = IF Has(d, "step") THEN o.step ELSE 5]
    ELSE IF o.type = "OPTION"
    THEN [o EXCEPT !.value = PyIndex(o.options, o.selected)]
    ELSE o

\* does the second loop raise on this record?
NormaliseError(o, d) ==
    IF o.type # "OPTION" THEN ""
    ELSE IF ~Has(d, "options") \/ ~Has(d, "selected") THEN "KeyError"
    ELSE IF PyIndexError(o.options, o.selected) THEN "IndexError"
    ELSE ""

RECURSIVE ProcessFrom(_, _)
ProcessFrom(options, i) ==
    IF i > Len(options) THEN [items |-> <<>>, raised |-> ""]
    ELSE LET new == NewOption(i - 1, options[i])
             rest == ProcessFrom(options, i + 1)
         IN  IF new = <<>> THEN rest
             ELSE IF NormaliseError(new[1], options[i]) # ""
             THEN [items |-> <<>>,
                   raised |-> NormaliseError(new[1], options[i])]
             ELSE [items |-> <<Normalised(new[1], options[i])>> \o rest.items,
                   raised |-> rest.raised]

\* _process_options(options) for a list of descriptors: the records of
\* new_options in order, keyed by their position in the list, and the
\* exception it ends with, if any.
_process_options(options) ==
    LET r == ProcessFrom(options, 1)
    IN  IF \E i \in 1..Len(options) : NewOptionError(options[i]) # ""
        THEN [items |-> <<>>,
              raised |-> NewOptionError(options[
                  CHOOSE i \in 1..Len(options) :
                      /\ NewOptionError(options[i]) # ""
                      /\ \A j \in 1..(i - 1) :
                            NewOptionError(options[j]) = ""])]
        ELSE IF r.raised # "" THEN [items |-> <<>>, raised |-> r.raised]
        ELSE r

\* _get_options_width(items): a toggle with a choice that is not a str
\* raises ValueError; descriptors[key + 1] is the descriptor of the record
\* stored under key.
WidthError(descriptors, items) ==
    IF \E n \in 1..Len(items) :
          items[n].type = "OPTION" /\ descriptors[items[n].key + 1].nonstr
    THEN "ValueError" ELSE ""

\* round(n / d) of Python for d > 0: a tie goes to the even neighbour.
PyRound(n, d) ==
    LET q == n \div d
        r == n % d
    IN  IF 2 * r < d THEN q
        ELSE IF 2 * r > d THEN q + 1
        ELSE IF q % 2 = 0 THEN q ELSE q + 1

ClampLow(v, low, high) == Max(v, low)

\* min(max(v, low), high)
Clamp(v, low, high) == Min(Max(v, low), high)

\* the direction a toggle moves in: from the pointer while the button is
\* held over the row, else the direction passed in.
ToggleDirection(direct, mouse, x) ==
    IF mouse THEN (IF 2 * x > RowWidth THEN 1 ELSE -1) ELSE direct

ToggleSelectedNoWrap(option, direct) ==
    Clamp(option.selected + direct, 0, Len(option.options) - 1)

\* option['selected'] after a toggle moved by `direct`
ToggleSelected(option, direct) ==
    PyMod(option.selected + direct, Len(option.options))

\* option['value'] of a slider after _change_option
SliderValue(option, direct, mouse, x) ==
    LET v == IF mouse
             THEN PyRound(option.min * RowWidth
                            + (option.max - option.min) * x, RowWidth)
             ELSE option.value + option.step * direct
    IN  Clamp(v, option.min, option.max)

\* _change_option(direct): the widget after the call.  self.changeable is
\* kept as the position in self.items of the option it refers to, 0 when
\* it is False or None.  m.changed lists the calls that changed an option,
\* as <<position, direction, by mouse, before, after>>: the selected index
\* of a toggle or the value of a slider before and after the call.
_change_option(m, direct, inp) ==
    IF m.changeable = 0 THEN m
    ELSE LET option == m.items[m.changeable]
             mouse == inp.pressed /\ RectHit(m, inp.pointer, m.selected)
             x == inp.pointer.x
         IN  IF option.type = "OPTION"
             THEN LET d == ToggleDirection(direct, mouse, x)
                      sel == ToggleSelected(option, d)
                      value == PyIndex(option.options, sel)
                  IN  [m EXCEPT !.items[m.changeable].selected = sel,
                                !.items[m.changeable].value = value,
                                !.changed = Append(@,
                                    <<m.changeable, d, mouse,
                                      option.selected, sel>>),
                                !.steps = Append(@, "change")]
             ELSE IF option.type = "SLIDER"
             THEN LET value == SliderValue(option, direct, mouse, x)
                  IN  [m EXCEPT !.items[m.changeable].value = value,
                                !.changed = Append(@,
                                    <<m.changeable, direct, mouse,
                                      option.value, value>>),
                                !.steps = Append(@, "change")]
             ELSE m

\* the value _change_option returned, read off the widget after the call.
Changed(m) ==
    IF m.changeable = 0
       \/ m.items[m.changeable].type \notin {"OPTION", "SLIDER"}
    THEN None
    ELSE [kind |-> "value", value |-> m.items[m.changeable].value]

\* self.keys: the keys of the rows that take the focus.
RECURSIVE KeysOf(_)
KeysOf(items) ==
    IF items = <<>> THEN <<>>
    ELSE (IF Head(items).type \in {"ITEM", "OPTION", "SLIDER"}
          THEN <<Head(items).key>> ELSE <<>>) \o KeysOf(Tail(items))

\* the position in items of the option stored under key k
PositionOf(items, k) == CHOOSE i \in 1..Len(items) : items[i].key = k

\* _draw_options(options): self.changeable is the focused toggle or slider,
\* self.rects has one rect for each row that takes the focus, and
\* _draw_buttons leaves one rect for each of the first three buttons.
_draw_options(m) ==
    LET keys == KeysOf(m.items)
        focused == IF m.selected \in 0..(Len(keys) - 1)
                   THEN PositionOf(m.items, PyIndex(keys, m.selected))
                   ELSE 0
    IN  [m EXCEPT !.changeable =
                      IF focused # 0
                         /\ m.items[focused].type \in {"OPTION", "SLIDER"}
                      THEN focused ELSE 0,
                  !.rects = Len(keys),
                  !.extra_rect = FALSE,
                  !.but_rects = IF Len(m.buttons) # 0
                                THEN Min(Len(m.buttons), 3) ELSE @]

\* the extra rect _handle_options appends for the button row
WithButtonRect(m) ==
    IF Len(m.buttons) # 0
    THEN [m EXCEPT !.rects = m.rects + 1, !.extra_rect = TRUE]
    ELSE m

\* self.selected of _handle_options after move.y
MoveFocus(m, y) ==
    LET sel == IF y < 0 THEN m.selected - 1
               ELSE IF y > 0 THEN m.selected + 1
               ELSE m.selected
    IN  [m EXCEPT !.selected = IF m.rects # 0 THEN PyMod(sel, m.rects)
                               ELSE sel]

\* self.buttons and self.selected == len(self.rects) - 1
OnButtons(m) == Len(m.buttons) # 0 /\ m.selected = m.rects - 1

\* rvalue = key, self._change_option(direct), self.items; c is the widget
\* after the call.
ChangeResult(c, key) ==
    [c EXCEPT !.result = Result("change", key, Changed(c))]

\* `if move.x:` of _handle_options
MoveOption(m, x, inp) ==
    IF x = 0 THEN m
    ELSE IF OnButtons(m)
    THEN [m EXCEPT !.bselected =
              PyMod(m.bselected + (IF x > 0 THEN 1 ELSE -1), m.but_rects)]
    ELSE IF PyIndexError(m.keys, m.selected)
    THEN [m EXCEPT !.raised = "IndexError"]
    ELSE ChangeResult(_change_option(m, x, inp), PyIndex(m.keys, m.selected))

\* rvalue = key, self.items[sel]['text'], self.items for the record o
ItemResult(m, o) ==
    IF o.type \in {"OPTION", "SLIDER"}
    THEN [m EXCEPT !.raised = "KeyError", !.result = None]
    ELSE [m EXCEPT !.alive = FALSE,
                   !.result = Result("item", PyIndex(m.keys, m.selected),
                                     o.text)]

\* `if select:` of _handle_options
SelectOption(m, select, inp) ==
    IF select = 0 \/ m.raised # "" THEN m
    ELSE IF OnButtons(m)
    THEN [m EXCEPT !.alive = FALSE,
                   !.result = Result("BUTTON", "BUTTON",
                                     PyIndex(m.buttons, m.bselected))]
    ELSE IF select > 0
    THEN IF PyIndexError(m.keys, m.selected)
         THEN [m EXCEPT !.raised = "IndexError"]
         ELSE IF m.changeable # 0
         THEN ChangeResult(_change_option(m, 1, inp),
                           PyIndex(m.keys, m.selected))
         ELSE ItemResult(m, m.items[PositionOf(m.items,
                                        PyIndex(m.keys, m.selected))])
    ELSE [m EXCEPT !.alive = FALSE, !.result = None]

\* a call that ended with an exception returned nothing.
Returned(m) == IF m.raised # "" THEN [m EXCEPT !.result = None] ELSE m

\* _handle_options after _get_input
OptionsAfterInput(g, inp) ==
    IF g.m.raised # "" THEN [g.m EXCEPT !.result = None]
    ELSE Returned(SelectOption(MoveOption(MoveFocus(g.m, g.y), g.x, inp),
                               g.select, inp))

\* the widget after the _draw_options call of _handle_options and the
\* extra rect
DrawnOptions(m, inp) ==
    Drawn([m EXCEPT !.changeable = 0, !.rects = 0, !.extra_rect = FALSE],
          WithButtonRect(_draw_options(m)), inp)

\* _handle_options(events)
_handle_options(m, inp) ==
    IF ~m.alive THEN [m EXCEPT !.result = None]
    ELSE OptionsAfterInput(_get_input(DrawnOptions(m, inp), inp), inp)

(***************************************************************************)
(* The input box.  A value the box returns is a record: the text of a      *)
(* 'string' box, or the number num / 10^exp of an 'int' or 'float' box.    *)
(***************************************************************************)
Value(type, text, num, exp) ==
    [type |-> type, text |-> text, num |-> num, exp |-> exp]

\* the result of one handle() of an input box
None3 == [kind |-> "NoneTuple"]
InputResult(value, index, label) ==
    [kind |-> "input", value |-> value, index |-> index, label |-> label]

\* the text without its "."
Undotted(text) == SelectSeq(text, LAMBDA c : c # ".")

\* textinput.replace('_', ' ') of a widget with a joystick
Typed(m) ==
    IF m.joystick
    THEN [n \in 1..Len(m.textinput) |->
             IF m.textinput[n] = "_" THEN " " ELSE m.textinput[n]]
    ELSE m.textinput

\* text.strip() as int() and float() apply it, for the space
RECURSIVE Stripped(_)
Stripped(text) ==
    IF text # <<>> /\ Head(text) = " " THEN Stripped(Tail(text))
    ELSE IF text # <<>> /\ text[Len(text)] = " "
    THEN Stripped(SubSeq(text, 1, Len(text) - 1))
    ELSE text

\* does int(text) return ?  The characters of a stripped buffer are
\* digits, "." or characters that are neither a sign nor an underscore.
IntParses(text) ==
    text # <<>> /\ \A n \in 1..Len(text) : text[n] \in Digits

\* the number int(text) returns
RECURSIVE IntOf(_)
IntOf(text) ==
    IF text = <<>> THEN 0
    ELSE 10 * IntOf(SubSeq(text, 1, Len(text) - 1))
         + (CHOOSE d \in 0..9 : DigitChars[d + 1] = text[Len(text)])

\* does float(text) return ?
FloatParses(text) ==
    /\ IntParses(Undotted(text))
    /\ Len(text) - Len(Undotted(text)) <= 1

\* the digits text has after its "."
Decimals(text) ==
    IF Undotted(text) = text THEN 0
    ELSE Len(text) - (CHOOSE n \in 1..Len(text) : text[n] = ".")

\* num / 10^exp in lowest terms of ten
RECURSIVE Reduced(_, _)
Reduced(num, exp) ==
    IF exp > 0 /\ num % 10 = 0 THEN Reduced(num \div 10, exp - 1)
    ELSE Value("float", <<>>, num, exp)

\* the number float(text) returns
FloatOf(text) == Reduced(IntOf(Undotted(text)), Decimals(text))

\* _handle_input with the try/except of its conversions left out
ConfirmUncaught(m, b) ==
    IF PyIndexError(m.buttons, b) THEN [m EXCEPT !.raised = "IndexError"]
    ELSE IF (m.input_type = "int" /\ ~IntParses(Stripped(Typed(m))))
            \/ (m.input_type = "float" /\ ~FloatParses(Stripped(Typed(m))))
    THEN [m EXCEPT !.raised = "ValueError"]
    ELSE [m EXCEPT !.result = InputResult(
             IF m.input_type = "int"
             THEN Value("int", <<>>, IntOf(Stripped(Typed(m))), 0)
             ELSE IF m.input_type = "float" THEN FloatOf(Stripped(Typed(m)))
             ELSE Value("str", Typed(m), 0, 0),
             b, PyIndex(m.buttons, b))]

\* the `if select >= 0` block of _handle_input:
\* the buffer is converted to the input type, 0 or float(0) if the
\* conversion raises, and returned with self.bselected and its button.
\* (The code keeps the converted value in self.textinput as well; the
\* record keeps the characters, the box being closed.)
Confirm(m, b) ==
    LET value == IF m.input_type = "int"
                 THEN Value("int", <<>>,
                            IF IntParses(Stripped(Typed(m)))
                            THEN IntOf(Stripped(Typed(m))) ELSE 0, 0)
                 ELSE IF m.input_type = "float"
                 THEN (IF FloatParses(Stripped(Typed(m)))
                       THEN FloatOf(Stripped(Typed(m)))
                       ELSE Value("float", <<>>, 0, 0))
                 ELSE Value("str", Typed(m), 0, 0)
    IN  IF PyIndexError(m.buttons, b) THEN [m EXCEPT !.raised = "IndexError"]
        ELSE [m EXCEPT !.result = InputResult(value, b, PyIndex(m.buttons, b))]

\* _draw_input(): self.rects is emptied, and the buttons, three at most,
\* are drawn if there are any.
_draw_input(m) ==
    [m EXCEPT !.rects = 0, !.extra_rect = FALSE,
              !.but_rects = IF Len(m.buttons) # 0
                            THEN Min(Len(m.buttons), 3) ELSE @]

\* _handle_input after _get_input returned g: the button focus moves and
\* is reduced modulo len(self.but_rects); a select closes the box, and a
\* closed box has stopped editing.  No call_back is given.
InputAfterInput(g) ==
    LET m == [g.m EXCEPT !.result = None3]
        b == g.m.bselected + (IF g.x < 0 THEN -1 ELSE IF g.x > 0 THEN 1 ELSE 0)
    IN  IF m.raised # "" THEN m
        ELSE IF m.but_rects = 0
        THEN [m EXCEPT !.bselected = b, !.raised = "ZeroDivisionError"]
        ELSE IF g.select = 0
        THEN [m EXCEPT !.bselected = PyMod(b, m.but_rects)]
        ELSE IF g.select < 0
        THEN [m EXCEPT !.bselected = PyMod(b, m.but_rects),
                       !.alive = FALSE, !.editing = 0]
        ELSE LET c == Confirm([m EXCEPT !.bselected = PyMod(b, m.but_rects),
                                        !.alive = FALSE],
                              PyMod(b, m.but_rects))
             IN  IF c.raised # "" THEN c ELSE [c EXCEPT !.editing = 0]

\* _handle_input(events)
_handle_input(m, inp) ==
    IF ~m.alive THEN [m EXCEPT !.result = None3]
    ELSE InputAfterInput(_get_input(Drawn(m, _draw_input(m), inp), inp))

(***************************************************************************)
(* The widgets at their construction.                                      *)
(***************************************************************************)
\* Menu.__init__: a Menu no entry point was called on.  self.rects,
\* self.page_icons and self.changeable do not exist yet.
MenuInit ==
    [ mode |-> "", alive |-> FALSE, can_cancel |-> FALSE,
      first_shown |-> FALSE, ignore_input |-> FALSE, editing |-> 0,
      joystick |-> FALSE, joy_pressed |-> 0,
      selected |-> 0, bselected |-> 0, rects |-> 0, extra_rect |-> FALSE,
      but_rects |-> 0, buttons |-> <<>>, page_icons |-> "unset",
      buttons_none |-> FALSE,   \* self.buttons is None, not a tuple
      items |-> <<>>, keys |-> <<>>, max_items |-> 0, page |-> -1,
      changeable |-> 0,
      back_func |-> "none", \* "callable" if the background is a callable
      input_type |-> "",    \* "" until input() sets it and self.textinput
      input_length |-> 0,   \* 0 is None: no limit
      textinput |-> <<>>,   \* the characters typed
      cur_char |-> <<>>,    \* <<>> is None, <<n>> the index scrolled to
      pc |-> "caller",      \* who has control: the "caller", or the "loop"
                            \* of _modal_menu, which ends "returned" or
                            \* "raised"
      rvalue |-> None,      \* what a modal entry point returned
      result |-> None,      \* what the last handle() returned
      raised |-> "",        \* the exception the last call ended with
      given |-> <<>>,       \* the descriptors options() was called with
      changed |-> <<>>,     \* the options the last handle() changed
      steps |-> <<>> ]      \* what the last handle() did, in order:
                            \* "draw", "input", "change"

\* what the keys of record o are in the dict d it is, for a record that
\* is the caller's dict: the second loop of _process_options and
\* _change_option assign them.
WrittenThrough(d, o) ==
    IF o.type = "SLIDER"
    THEN [d EXCEPT !.has = @ \cup {"min", "max", "value", "step"},
                   !.min = o.min, !.max = o.max, !.step = o.step,
                   !.value = o.value]
    ELSE IF o.type = "OPTION"
    THEN [d EXCEPT !.has = @ \cup {"value"}, !.selected = o.selected]
    ELSE d

\* the descriptors of the caller as they are now
CallerDescriptors(m) ==
    [i \in 1..Len(m.given) |->
        IF \E n \in 1..Len(m.items) :
              m.items[n].key = i - 1 /\ m.items[n].shared
        THEN WrittenThrough(m.given[i],
                 m.items[CHOOSE n \in 1..Len(m.items) :
                             m.items[n].key = i - 1])
        ELSE m.given[i]]

\* select(options, can_cancel=can_cancel, modeless=True) on a viewport
\* that has room for max_items rows.
select(m, options, max_items, can_cancel) ==
    [m EXCEPT !.mode = "select", !.can_cancel = can_cancel,
              !.buttons = <<>>, !.but_rects = 0,
              !.max_items = max_items, !.items = options,
              !.page = IF PySlice(options, 0, max_items) = options
                       THEN -1 ELSE 0,
              !.first_shown = TRUE, !.rects = 0, !.selected = 0,
              !.ignore_input = TRUE, !.alive = TRUE]

\* options(options, buttons=buttons, can_cancel=can_cancel, modeless=True)
options(m, descriptors, buttons, can_cancel) ==
    LET p == _process_options(descriptors)
    IN  IF p.raised # ""
        THEN [m EXCEPT !.can_cancel = can_cancel, !.buttons = buttons,
                       !.raised = p.raised]
        ELSE IF WidthError(descriptors, p.items) # ""
        THEN [m EXCEPT !.can_cancel = can_cancel, !.buttons = buttons,
                       !.raised = WidthError(descriptors, p.items)]
        ELSE [m EXCEPT !.mode = "options", !.can_cancel = can_cancel,
                       !.buttons = buttons, !.items = p.items,
                       !.given = descriptors,
                       !.rects = 0, !.first_shown = TRUE,
                       !.selected = 0, !.bselected = 0,
                       !.keys = KeysOf(p.items),
                       !.ignore_input = TRUE, !.alive = TRUE]

\* input(title, buttons=buttons, typ=typ, length=length,
\*       can_cancel=can_cancel, modeless=True, default_text=default_text)
input(m, buttons, typ, length, can_cancel, default_text) ==
    [_draw_input([m EXCEPT !.buttons = buttons, !.can_cancel = can_cancel,
                           !.bselected = 0, !.input_type = typ,
                           !.input_length = length, !.editing = 1,
                           !.textinput = default_text])
        EXCEPT !.mode = "input", !.ignore_input = TRUE, !.alive = TRUE]

(***************************************************************************)
(* The dialog.                                                             *)
(***************************************************************************)
\* dialog(text, title, buttons=buttons, can_cancel=can_cancel,
\*        modeless=True); buttons is None when none is True.
dialog(m, none, buttons, can_cancel) ==
    [m EXCEPT !.mode = "dialog", !.buttons = buttons, !.buttons_none = none,
              !.can_cancel = can_cancel, !.rects = 0, !.bselected = 0,
              !.ignore_input = TRUE, !.alive = TRUE]

\* _draw_buttons(): self.buttons + (None, None, None) raises TypeError
\* when self.buttons is None; else one rect for each of the first three
\* buttons.
_draw_buttons(m) ==
    IF m.buttons_none THEN [m EXCEPT !.raised = "TypeError"]
    ELSE [m EXCEPT !.but_rects = Min(Len(m.buttons), 3)]

\* _draw_dialog(): no row rects, and the buttons whether there are any
\* or not.
_draw_dialog(m) == _draw_buttons([m EXCEPT !.rects = 0])

\* _handle_dialog after _get_input: self.bselected moves with move.x and
\* is reduced modulo len(self.but_rects); a confirm returns the focused
\* button, a cancel 'Done' if the dialog can be cancelled.
DialogAfterInput(g) ==
    LET m == g.m
        b == IF g.x < 0 THEN m.bselected - 1
             ELSE IF g.x > 0 THEN m.bselected + 1
             ELSE m.bselected
    IN  IF m.raised # "" THEN [m EXCEPT !.result = None]
        ELSE IF m.but_rects = 0
        THEN [m EXCEPT !.raised = "ZeroDivisionError", !.result = None]
        ELSE IF g.select > 0
        THEN [m EXCEPT !.bselected = PyMod(b, m.but_rects),
                       !.alive = FALSE,
                       !.result = Result("button", PyMod(b, m.but_rects),
                           PyIndex(m.buttons, PyMod(b, m.but_rects)))]
        ELSE IF g.select < 0 /\ m.can_cancel
        THEN [m EXCEPT !.bselected = PyMod(b, m.but_rects),
                       !.alive = FALSE,
                       !.result = Result("Done", 0, "Done")]
        ELSE [m EXCEPT !.bselected = PyMod(b, m.but_rects)]

\* _handle_dialog(events)
_handle_dialog(m, inp) ==
    IF ~m.alive THEN [m EXCEPT !.result = None]
    ELSE DialogAfterInput(_get_input(Drawn(m, _draw_dialog(m), inp), inp))

\* a call starts with nothing returned, raised or changed yet.
Entered(m) ==
    [m EXCEPT !.result = None, !.raised = "", !.changed = <<>>,
              !.steps = <<>>]

\* the handler the entry point left in self.handle
Dispatch(m, inp) ==
    IF m.mode = "select" THEN _handle_select(m, inp)
    ELSE IF m.mode = "input" THEN _handle_input(m, inp)
    ELSE IF m.mode = "dialog" THEN _handle_dialog(m, inp)
    ELSE _handle_options(m, inp)

\* self.handle(events)
handle(m, inp) == Dispatch(Entered(m), inp)

\* an entry point called with modeless=False: it is in _modal_menu.
Modal(m) == [m EXCEPT !.pc = "loop"]

\* one pass of the loop of _modal_menu, m the widget after
\* rvalue = self.handle(): an exception leaves the loop, and so does
\* `while self.alive`, with `return rvalue`.
Looped(m) ==
    IF m.raised # "" THEN [m EXCEPT !.pc = "raised"]
    ELSE IF ~m.alive THEN [m EXCEPT !.pc = "returned", !.rvalue = m.result]
    ELSE m

(***************************************************************************)
(* The widgets of the scenarios and what their caller feeds them.          *)
(***************************************************************************)
MaxItems == 5       \* longest list given to select()
MaxPage == 3        \* most rows a page of select() has
MaxRows == 4        \* rows the pointer can be on

ItemNames == <<"a", "b", "c", "d", "e", "f", "g">>

OptionLists ==
    { << Label("Colour"), Toggle(<<"red", "green", "blue">>),
         Slider(0, 10, 5, 5), Item("Quit") >> }
    \cup { << ToggleAt(<<"on", "off">>, s), Slider(2, 9, 3, 2) >> :
             s \in -2..1 }
    \cup { << ToggleDict(<<"x">>, s) >> : s \in -1..0 }

ButtonLists == { <<>>, <<"Okay", "Cancel">> }

KeyEvents == Keys \cup {"QUIT"}
PairKeys == {"K_DOWN", "K_LEFT", "K_RIGHT", "K_RETURN", "K_ESCAPE"}

Pointers ==
    { Pointer("row", i, 0) : i \in 0..(MaxRows - 1) }
    \cup { Pointer("button", i, 0) : i \in 0..1 }
    \cup { Pointer(at, 0, 0) :
             at \in {"left_icon", "right_icon", "area", "outside", "origin"} }

Input(events, pointer, pressed) ==
    [events |-> events, pointer |-> pointer, pressed |-> pressed,
     joy |-> "idle", back |-> "draws"]

\* the same input in a tick in which the background callable raises
BackRaises(inp) == [inp EXCEPT !.back = "raises"]

\* set_background(background) with a callable
set_background(m) == [m EXCEPT !.back_func = "callable"]

\* no event, a button of the joystick held
JoyHeld(button) == [Input(<<>>, Nowhere, FALSE) EXCEPT !.joy = button]

\* Menu(target, font, joystick=(joystick, but_select, but_cancel))
WithJoystick(m) == [m EXCEPT !.joystick = TRUE]

\* what a tick can read: a batch of key events with the mouse at rest, a
\* mouse event with the pointer anywhere, or a key or click while the left
\* button is held over a row.
Inputs ==
    { Input(<<>>, Nowhere, FALSE) }
    \cup { BackRaises(Input(e, Nowhere, FALSE)) : e \in {<<>>, <<"K_DOWN">>} }
    \cup { JoyHeld(b) : b \in {"select", "cancel"} }
    \cup { Input(<<k>>, Nowhere, FALSE) : k \in KeyEvents }
    \cup { Input(<<j, k>>, Nowhere, FALSE) : j \in PairKeys, k \in PairKeys }
    \cup { Input(<<e>>, p, FALSE) :
             e \in {"MOUSEMOTION", "MOUSEBUTTONDOWN"}, p \in Pointers }
    \cup { Input(<<"MOUSEMOTION", "MOUSEBUTTONDOWN">>, Pointer("row", i, 0),
                  FALSE) : i \in 0..(MaxRows - 1) }
    \cup { Input(<<"MOUSEBUTTONDOWN", "K_RETURN">>, p, FALSE) :
             p \in {Pointer("left_icon", 0, 0), Pointer("right_icon", 0, 0)} }
    \cup { Input(<<e>>, Pointer("row", i, x), TRUE) :
             e \in {"MOUSEBUTTONDOWN", "K_RIGHT", "K_LEFT"},
             i \in 0..(MaxRows - 1), x \in 0..(RowWidth - 1) }

\* what a tick of an input box can read: typed characters, keys, a
\* character and the Return key in one batch, or a click.
TypedInputs ==
    { Input(<<>>, Nowhere, FALSE) }
    \cup { Input(<<e>>, Nowhere, FALSE) :
             e \in TextEvents \cup {"K_RETURN", "K_BACKSPACE", "K_ESCAPE",
                                    "K_LEFT", "K_RIGHT", "K_SPACE", "QUIT"} }
    \cup { Input(<<e, "K_RETURN">>, Nowhere, FALSE) : e \in TextEvents }
    \cup { Input(<<"MOUSEMOTION", "MOUSEBUTTONDOWN">>, p, FALSE) :
             p \in {Pointer("button", 1, 0), Nowhere} }

\* what a tick of an input box with a joystick can read: the joystick
\* idle or one of its buttons or d-pad directions held, a typed character
\* or a key with the joystick idle, or the Return key while the d-pad is
\* held up.
JoyHolds == {"idle", "select", "cancel", "up", "down", "left", "right"}
JoyTypedInputs ==
    { [Input(<<>>, Nowhere, FALSE) EXCEPT !.joy = j] : j \in JoyHolds }
    \cup { Input(<<e>>, Nowhere, FALSE) :
             e \in TextEvents \cup {"K_RETURN", "K_BACKSPACE", "K_RIGHT"} }
    \cup { [Input(<<"K_RETURN">>, Nowhere, FALSE) EXCEPT !.joy = "up"] }

\* the batches the caller of widget m feeds it
InputsOf(m) ==
    IF m.mode = "input"
    THEN (IF m.joystick THEN JoyTypedInputs ELSE TypedInputs)
    ELSE Inputs

\* The history of a widget:
\*   ticks     the handle() calls so far
\*   escape    the last batch was one Escape key-down
\*   was_alive the widget was alive before the last handle()
\*   failed    some handle() so far ended with an exception
\*   start     self.items at construction
\*   sum       for each option, the sum of the directions _change_option
\*             was called with for it
\*   moused    the options _change_option changed from the pointer
\*   touched   the options _change_option changed
\*   select    the select _get_input returned to the last handle():
\*             0 (False), 1 (True) or -1, 0 when it raised
MenuHist(m) ==
    [ ticks |-> 0, escape |-> FALSE, was_alive |-> FALSE, failed |-> FALSE,
      select |-> 0,
      start |-> m.items, sum |-> [i \in 1..Len(m.items) |-> 0],
      moused |-> {}, touched |-> {} ]

RECURSIVE SumFor(_, _)
SumFor(changed, i) ==
    IF changed = <<>> THEN 0
    ELSE (IF Head(changed)[1] = i THEN Head(changed)[2] ELSE 0)
         + SumFor(Tail(changed), i)

ChangedBy(changed, mouse) ==
    { changed[n][1] : n \in { k \in 1..Len(changed) : mouse => changed[k][3] } }

\* what _get_input returns to the handle() of widget m
InputFor(m, inp) ==
    IF m.mode = "select" THEN _get_input(m, inp)
    ELSE IF m.mode = "input"
    THEN _get_input(Drawn(m, _draw_input(m), inp), inp)
    ELSE IF m.mode = "dialog"
    THEN _get_input(Drawn(m, _draw_dialog(m), inp), inp)
    ELSE _get_input(DrawnOptions(m, inp), inp)
InputOf(m, inp) == InputFor(Entered(m), inp)

\* the select of that input
SelectOf(g) == IF g.m.raised # "" THEN 0 ELSE g.select

MenuInitState ==
    /\ sprite = SpriteInit
    /\ \/ \E L \in 1..MaxItems, P \in 1..MaxPage, c \in BOOLEAN :
            menu = select(MenuInit, SubSeq(ItemNames, 1, L), P, c)
       \/ \E d \in OptionLists, b \in ButtonLists, c \in BOOLEAN :
            menu = options(MenuInit, d, b, c)
       \/ \E c \in BOOLEAN :
            menu = select(WithJoystick(MenuInit), SubSeq(ItemNames, 1, 2),
                          2, c)
       \/ \E c \in BOOLEAN :
            \/ menu = Modal(select(MenuInit, SubSeq(ItemNames, 1, 2), 1, c))
            \/ menu = Modal(options(MenuInit,
                                    <<Toggle(<<"on", "off">>), Item("Quit")>>,
                                    <<"Okay", "Cancel">>, c))
            \/ menu = Modal(select(set_background(MenuInit),
                                   SubSeq(ItemNames, 1, 2), 2, c))
            \/ menu = Modal(options(set_background(MenuInit),
                                    <<Toggle(<<"on", "off">>), Item("Quit")>>,
                                    <<>>, c))
    /\ hist = MenuHist(menu)

\* the history after a handle() that was given inp
Ticked(inp) ==
          /\ hist' = [hist EXCEPT
                !.ticks = hist.ticks + 1,
                !.escape = inp.events = <<"K_ESCAPE">>,
                !.was_alive = menu.alive,
                !.select = IF menu.alive THEN SelectOf(InputOf(menu, inp))
                           ELSE 0,
                !.failed = hist.failed \/ menu'.raised # "",
                !.sum = [i \in DOMAIN hist.sum |->
                            hist.sum[i] + SumFor(menu'.changed, i)],
                !.moused = hist.moused \cup ChangedBy(menu'.changed, TRUE),
                !.touched = hist.touched \cup ChangedBy(menu'.changed, FALSE)]

\* the caller of a modeless widget calls handle(events)
Handle ==
    /\ menu.pc = "caller"
    /\ hist.ticks < MaxTicks
    /\ \E inp \in InputsOf(menu) :
          /\ menu' = handle(menu, inp)
          /\ Ticked(inp)
    /\ UNCHANGED sprite

\* _modal_menu runs one pass of its loop on the events pygame has queued
ModalTick ==
    /\ menu.pc = "loop"
    /\ hist.ticks < MaxTicks
    /\ \E inp \in InputsOf(menu) :
          /\ menu' = Looped(handle(menu, inp))
          /\ Ticked(inp)
    /\ UNCHANGED sprite

MenuNext == Handle \/ ModalTick

MenuSpec == MenuInitState /\ [][MenuNext]_vars

\* A dialog with no buttons argument, an empty tuple or one to three
\* buttons, modeless or modal, with or without a joystick.
DialogButtons ==
    { <<>>, <<"Okay">>, <<"Yes", "No">>, <<"Yes", "No", "Cancel">> }

DialogInitState ==
    /\ sprite = SpriteInit
    /\ \E c \in BOOLEAN, j \in BOOLEAN, modal \in BOOLEAN :
         \E b \in DialogButtons, none \in BOOLEAN :
            /\ none => b = <<>>
            /\ LET w == dialog(IF j THEN WithJoystick(MenuInit)
                               ELSE MenuInit, none, b, c)
               IN  menu = IF modal THEN Modal(w) ELSE w
    /\ hist = MenuHist(menu)

DialogSpec == DialogInitState /\ [][MenuNext]_vars

\* the descriptors given to options(): a label, an item, a toggle, a
\* slider, a dict with an unknown type, a dict without a type, None, an
\* empty tuple, a toggle with a choice that is not a str, and a toggle dict
\* without 'selected'.
MaxDescriptors == 3
Descriptors ==
    { Label("Colour"), Item("Quit"), Toggle(<<"on", "off">>),
      Slider(0, 10, 5, 5),
      [Descriptor EXCEPT !.type = "BUTTON"],
      Descriptor,
      [Descriptor EXCEPT !.form = "none"],
      Toggle(<<>>),
      [Toggle(<<"on", "off">>) EXCEPT !.nonstr = TRUE],
      [ToggleDict(<<"x">>, 0) EXCEPT !.has = {"options"}] }
DescriptorLists ==
    UNION { [1..n -> Descriptors] : n \in 1..MaxDescriptors }

\* A Menu on which options() is called once with a list of descriptors;
\* hist records the list.
OptionsInitState ==
    /\ sprite = SpriteInit
    /\ menu = MenuInit
    /\ hist = [called |-> FALSE, given |-> <<>>]

Options ==
    /\ ~hist.called
    /\ \E d \in DescriptorLists, c \in BOOLEAN :
          /\ menu' = options(MenuInit, d, <<>>, c)
          /\ hist' = [called |-> TRUE, given |-> d]
    /\ UNCHANGED sprite

OptionsSpec == OptionsInitState /\ [][Options]_vars

(***************************************************************************)
(* Slider descriptors: dicts of type 'SLIDER' that come with any of the    *)
(* keys min, max, step and value; a key that is left out is 0 in the       *)
(* descriptor record.                                                      *)
(***************************************************************************)
SliderMins == {-4, 0, 2, 6}
SliderMaxes == {-2, 0, 9, 10}
SliderValues == {-5, 0, 5, 12}
SliderKeys == {"min", "max", "step", "value"}

SliderDict(has, min, max, value) ==
    [Descriptor EXCEPT !.type = "SLIDER", !.has = has,
                       !.min = IF "min" \in has THEN min ELSE 0,
                       !.max = IF "max" \in has THEN max ELSE 0,
                       !.step = IF "step" \in has THEN 1 ELSE 0,
                       !.value = IF "value" \in has THEN value ELSE 0]

SliderDescriptors ==
    { SliderDict(has, min, max, value) :
          has \in SUBSET SliderKeys, min \in SliderMins,
          max \in SliderMaxes, value \in SliderValues }

\* options() is called once with one slider descriptor
SliderOptions ==
    /\ ~hist.called
    /\ \E d \in SliderDescriptors, c \in BOOLEAN :
          /\ menu' = options(MenuInit, <<d>>, <<>>, c)
          /\ hist' = [called |-> TRUE, given |-> <<d>>]
    /\ UNCHANGED sprite

SliderSpec == OptionsInitState /\ [][SliderOptions]_vars

(***************************************************************************)
(* A paged list: select() of a list longer than a page, then the Left,     *)
(* Right and Down keys.                                                    *)
(***************************************************************************)
MaxList == 13       \* longest list given to a paged select()
MaxPerPage == 12    \* most rows a page of a paged select() has

LongNames == <<"i0", "i1", "i2", "i3", "i4", "i5", "i6", "i7", "i8", "i9",
               "i10", "i11", "i12">>

PagingKeys == {"K_RIGHT", "K_LEFT", "K_DOWN", "K_UP"}

\* The history of a paged list:
\*   rights   the handle() calls given the Right key since the last one
\*            given another key, counted up to MaxList + 1
\*   seen     the items _draw_select drew in those calls
\*   key      the key of the last handle(), "" before the first
\*   rows     the rows the last handle() drew
\*   from     selected before the last handle()
\*   ignored  the last handle() was the first one, whose events
\*            _get_input drops
PagingHist ==
    [ rights |-> 0, seen |-> {}, key |-> "", rows |-> 0, from |-> 0,
      ignored |-> FALSE ]

PagingInitState ==
    /\ sprite = SpriteInit
    /\ \E P \in 1..MaxPerPage : \E L \in (P + 1)..MaxList :
          menu = select(MenuInit, SubSeq(LongNames, 1, L), P, FALSE)
    /\ hist = PagingHist

\* the caller calls handle(events) with one key-down event
PagingTick ==
    /\ \E k \in PagingKeys :
          /\ menu' = handle(menu, Input(<<k>>, Nowhere, FALSE))
          /\ hist' =
                IF k = "K_RIGHT"
                THEN [rights |-> Min(hist.rights + 1, MaxList + 1),
                      seen |-> hist.seen \cup
                          { PageItems(menu, menu.page)[i] :
                              i \in 1..Len(PageItems(menu, menu.page)) },
                      key |-> k,
                      rows |-> Len(PageItems(menu, menu.page)),
                      from |-> menu.selected,
                      ignored |-> menu.ignore_input]
                ELSE [PagingHist EXCEPT
                         !.key = k,
                         !.rows = Len(PageItems(menu, menu.page)),
                         !.from = menu.selected,
                         !.ignored = menu.ignore_input]
    /\ UNCHANGED sprite

PagingSpec == PagingInitState /\ [][PagingTick]_vars

\* the lengths given to input(): None, or a limit
MaxLength == 2
InputTypes == {"string", "int", "float"}
InputButtons == { <<>>, <<"Okay">>, <<"Okay", "Cancel">> }
DefaultTexts == { <<>>, <<"x">> }

\* An input box, modeless or in _modal_menu.
InputInitState ==
    /\ sprite = SpriteInit
    /\ \E b \in InputButtons, typ \in InputTypes, length \in {0, MaxLength},
          c \in BOOLEAN, d \in DefaultTexts, modal \in BOOLEAN :
          menu = IF modal
                 THEN Modal(input(MenuInit, b, typ, length, c, d))
                 ELSE input(MenuInit, b, typ, length, c, d)
    /\ hist = MenuHist(menu)

InputSpec == InputInitState /\ [][MenuNext]_vars

\* A widget of any of the four modes: a list, an options menu, an input
\* box or a dialog.
ModesInitState == MenuInitState \/ InputInitState \/ DialogInitState

ModesSpec == ModesInitState /\ [][MenuNext]_vars

\* An 'int' or 'float' input box of a Menu that has a joystick, its buffer
\* empty, modeless or in _modal_menu.
ScrollInitState ==
    /\ sprite = SpriteInit
    /\ \E typ \in {"int", "float"}, length \in {0, MaxLength},
          c \in BOOLEAN, modal \in BOOLEAN :
          menu = IF modal
                 THEN Modal(input(WithJoystick(MenuInit), <<"Okay">>, typ,
                                  length, c, <<>>))
                 ELSE input(WithJoystick(MenuInit), <<"Okay">>, typ,
                            length, c, <<>>)
    /\ hist = MenuHist(menu)

ScrollSpec == ScrollInitState /\ [][MenuNext]_vars

(***************************************************************************)
(* The sprite driven by its caller: any API call, then any update.         *)
(***************************************************************************)
\* a call starts with no exception pending.
Call(s) == [s EXCEPT !.raised = ""]

\* longest run of update() calls recorded after a set_animation.
TraceLen == 3

\* The history of a sprite:
\*   op        the last call
\*   calls     the number of API calls other than update
\*   run       <<animation, loop_count, loop_type>> of the last
\*             set_animation, made with nothing held or queued, while
\*             update is the only call made since
\*   updates   the deltas of the update calls of that run
\*   queued    ids of the animations given to queue_animation, in order
\*   started   ids of those that began to play, in order
\*   snapshot  <<frames, index, loop_type, loop_count>> playing when
\*             interrupt was last called
\*   stepped   the last call was an update that called _next_frame
\*   restored  the last call was an update that restored the held animation
\*   empty     the last call was given an empty frame list
\*   interrupted  <<X>> while the animation X given to the last interrupt
\*             plays with a snapshot held, <<>> otherwise
\*   lost      <<snapshot>> that was held when interrupt was called while
\*             an interrupting animation played, until the next call or
\*             the update after the one that restores; <<>> otherwise
\*   held_stopped  the sprite was stopped (duration 0) when interrupt was
\*             last called, while its snapshot is kept
\*   stopped   "no", or how the sprite was when stop() was called, with no
\*             set_animation, queue_animation, interrupt or set_frame
\*             since: "moving" on a timed frame with a velocity, or "still"
SpriteHist ==
    [ op |-> "init", calls |-> 0, run |-> <<>>, updates |-> <<>>,
      queued |-> <<>>, started |-> <<>>, snapshot |-> <<>>,
      stepped |-> FALSE, restored |-> FALSE, empty |-> FALSE,
      stopped |-> "no", interrupted |-> <<>>, lost |-> <<>>,
      held_stopped |-> FALSE ]

\* an API call other than update ends the recorded run.
Called(op) ==
    [hist EXCEPT !.op = op, !.calls = hist.calls + 1, !.run = <<>>,
                 !.updates = <<>>, !.stepped = FALSE, !.restored = FALSE,
                 !.empty = FALSE,
                 !.interrupted = IF op \in {"queue_animation", "queue_event"}
                                 THEN hist.interrupted ELSE <<>>,
                 !.lost = <<>>,
                 !.stopped = IF op = "queue_event" THEN hist.stopped
                             ELSE "no",
                 !.snapshot = IF sprite.held_animation # <<>>
                              THEN hist.snapshot ELSE <<>>,
                 !.held_stopped = sprite.held_animation # <<>>
                                  /\ hist.held_stopped]

SpriteInitState ==
    /\ \E sp \in Speeds : sprite = [SpriteInit EXCEPT !.speed = sp]
    /\ menu = MenuInit
    /\ hist = SpriteHist

SetAnimation ==
    /\ hist.calls < MaxCalls
    /\ \E a \in BaseAnims \cup {NoFrames}, n \in LoopCounts,
          lt \in loop_types :
          /\ sprite' = set_animation(Call(sprite), a, n, lt)
          /\ hist' = [Called("set_animation") EXCEPT
                        !.empty = a = NoFrames,
                        !.run = IF sprite.held_animation = <<>>
                                   /\ sprite.anim_queue = <<>>
                                   /\ sprite.event_queue = <<>>
                                   /\ a # NoFrames
                                THEN <<a, n, lt>> ELSE <<>>]
    /\ UNCHANGED menu

Interrupt ==
    /\ hist.calls < MaxCalls
    /\ \E a \in InterruptAnims \cup {NoFrames}, lt \in loop_types :
          /\ sprite' = interrupt(Call(sprite), a, lt)
          /\ hist' = [Called("interrupt") EXCEPT
                        !.empty = a = NoFrames,
                        !.interrupted = IF a = NoFrames THEN <<>> ELSE <<a>>,
                        !.lost = IF hist.interrupted # <<>> /\ a # NoFrames
                                 THEN <<sprite.held_animation>> ELSE <<>>,
                        !.snapshot = <<sprite.anim_frames, sprite.anim_frame,
                                       sprite.loop_type, sprite.loop_count>>,
                        !.held_stopped = sprite.duration = 0]
    /\ UNCHANGED menu

\* the animations A, B, C are queued in this order, each once, or an empty
\* frame list in place of one of them.
QueueAnimation ==
    /\ hist.calls < MaxCalls
    /\ Len(hist.queued) < Len(QueueAnims)
    /\ \E a \in {QueueAnims[Len(hist.queued) + 1], NoFrames} :
           /\ sprite' = queue_animation(Call(sprite), a, 0, "forward")
           /\ hist' = [Called("queue_animation") EXCEPT
                         !.empty = a = NoFrames,
                         !.queued = Append(hist.queued, AnimId(a)),
                         !.started =
                             IF sprite.duration = 0
                             THEN Append(hist.started, AnimId(a))
                             ELSE hist.started]
    /\ UNCHANGED menu

\* the callbacks f, g are registered in this order, each once.
QueueEvent ==
    /\ hist.calls < MaxCalls
    /\ Len(sprite.event_queue) + Len(sprite.called) < Len(Callbacks)
    /\ sprite' = queue_event(Call(sprite),
                     Callbacks[Len(sprite.event_queue) + Len(sprite.called) + 1])
    /\ hist' = Called("queue_event")
    /\ UNCHANGED menu

Stop ==
    /\ hist.calls < MaxCalls
    /\ sprite' = stop(Call(sprite))
    /\ hist' = [Called("stop") EXCEPT
                   !.stopped = IF sprite.velocity # Off /\ sprite.duration > 0
                               THEN "moving" ELSE "still"]
    /\ UNCHANGED menu

Update ==
    /\ sprite.loop_count >= -MaxLoops
    /\ \E delta \in Deltas :
          /\ sprite.time_spent + delta <= MaxTime
          /\ sprite' = update(Call(sprite), delta)
          /\ hist' = [hist EXCEPT
                        !.op = "update", !.empty = FALSE,
                        !.interrupted = IF sprite'.held_animation # <<>>
                                        THEN hist.interrupted ELSE <<>>,
                        !.lost = IF sprite.held_animation # <<>>
                                 THEN hist.lost ELSE <<>>,
                        !.stepped = sprite.speed # 0 /\ FrameElapsed(
                            [sprite EXCEPT !.time_spent = @ + delta]),
                        !.restored = sprite.held_animation # <<>>
                                     /\ sprite'.held_animation = <<>>,
                        !.snapshot = IF sprite.held_animation # <<>>
                                     THEN hist.snapshot ELSE <<>>,
                        !.held_stopped = sprite.held_animation # <<>>
                                         /\ hist.held_stopped,
                        !.run = IF Len(hist.updates) < TraceLen
                                THEN hist.run ELSE <<>>,
                        !.updates = IF hist.run # <<>>
                                       /\ Len(hist.updates) < TraceLen
                                    THEN Append(hist.updates, delta)
                                    ELSE <<>>,
                        !.started =
                            IF Len(sprite'.anim_queue) < Len(sprite.anim_queue)
                            THEN Append(hist.started,
                                        AnimId(Head(sprite.anim_queue)[1]))
                            ELSE hist.started]
    /\ UNCHANGED menu

SpriteNext ==
    \/ SetAnimation
    \/ Interrupt
    \/ QueueAnimation
    \/ QueueEvent
    \/ Stop
    \/ Update

SpriteSpec == SpriteInitState /\ [][SpriteNext]_vars

(***************************************************************************)
(* The sprite in motion: keyframes that set the kinematic channels.        *)
(***************************************************************************)
\* keyfr(80, 100, velocity=(20, -10), rotation=90, scaling=1, fading=100)
Moving ==
    [frame |-> 80, duration |-> 100, velocity |-> <<20, -10>>,
     rotation |-> 90, scaling |-> 1, fading |-> 100]

\* keyfr(90, 0, pos=(5, 7), angle=45)
Placed == [frame |-> 90, duration |-> 0, pos |-> <<5, 7>>, angle |-> 45]

MotionFrames == {Moving, Placed}
MotionAnims == { <<Moving, keyfr(81, 100)>> }

SetFrame ==
    /\ hist.calls < MaxCalls
    /\ \E kf \in MotionFrames : sprite' = set_frame(Call(sprite), kf)
    /\ hist' = Called("set_frame")
    /\ UNCHANGED menu

\* set_animation with an animation that moves the sprite
Animate ==
    /\ hist.calls < MaxCalls
    /\ \E a \in MotionAnims, n \in {-1, 0} :
          sprite' = set_animation(Call(sprite), a, n, "forward")
    /\ hist' = Called("set_animation")
    /\ UNCHANGED menu

MotionNext ==
    \/ SetFrame
    \/ Animate
    \/ Interrupt
    \/ Stop
    \/ Update

MotionSpec == SpriteInitState /\ [][MotionNext]_vars

(***************************************************************************)
(* The frame timer: a sprite of speed 1 on frames of several durations,    *)
(* updated in steps shorter than, equal to and longer than a frame.        *)
(***************************************************************************)
MaxStarts == 2      \* set_animation calls made on a timed sprite
TimerDeltas == {40, 60, 100, 150}
TimerAnims == { <<keyfr(10, 100), keyfr(11, 200)>>,
                <<keyfr(20, 200), keyfr(21, 0)>> }

\* The history of a timed sprite:
\*   op      the last call
\*   calls   the number of set_animation calls
\*   e       time_spent + delta of the last update
\*   d       the frame duration the last update found
\*   index, loops   anim_frame and loop_count the last update found
TimerHist ==
    [ op |-> "init", calls |-> 0, e |-> 0, d |-> 0, index |-> 0, loops |-> 0 ]

TimerInitState ==
    /\ sprite = SpriteInit
    /\ menu = MenuInit
    /\ hist = TimerHist

TimerStart ==
    /\ hist.calls < MaxStarts
    /\ \E a \in TimerAnims, n \in {-1, 1}, lt \in loop_types :
          sprite' = set_animation(Call(sprite), a, n, lt)
    /\ hist' = [TimerHist EXCEPT !.op = "set_animation",
                                 !.calls = hist.calls + 1]
    /\ UNCHANGED menu

TimerUpdate ==
    /\ sprite.loop_count >= -MaxLoops
    /\ \E delta \in TimerDeltas :
          /\ sprite.time_spent + delta <= MaxTime
          /\ sprite' = update(Call(sprite), delta)
          /\ hist' = [hist EXCEPT !.op = "update",
                                  !.e = sprite.time_spent + delta,
                                  !.d = sprite.duration,
                                  !.index = sprite.anim_frame,
                                  !.loops = sprite.loop_count]
    /\ UNCHANGED menu

TimerNext ==
    \/ TimerStart
    \/ TimerUpdate

TimerSpec == TimerInitState /\ [][TimerNext]_vars

(***************************************************************************)
(* Properties of the option mutation protocol (MenuSpec).                  *)
(***************************************************************************)
Toggles == IF menu.mode = "options"
           THEN {i \in 1..Len(menu.items) : menu.items[i].type = "OPTION"}
           ELSE {}
Sliders == IF menu.mode = "options"
           THEN {i \in 1..Len(menu.items) : menu.items[i].type = "SLIDER"}
           ELSE {}

\* C1: a toggle of M choices that started at index 0 and was changed by
\* keyboard directions only has selected = (sum of the directions) mod M,
\* and its value is the choice at that index.
C1_ToggleWrap ==
    \A i \in Toggles :
        hist.start[i].selected = 0 /\ i \notin hist.moused =>
            LET o == menu.items[i]
                n == hist.sum[i] % Len(o.options)
            IN  o.selected = n /\ o.value = o.options[n + 1]

\* [+1, +1, +1] on [red, green, blue]: back on index 0, value "red".
C1_Witness ==
    \E i \in Toggles :
        /\ menu.items[i].options = <<"red", "green", "blue">>
        /\ hist.start[i].selected = 0 /\ i \notin hist.moused
        /\ hist.sum[i] = 3
        /\ menu.items[i].selected = 0 /\ menu.items[i].value = "red"

\* the calls of the last handle() that changed option i by the keyboard
KeyboardChanges(i) ==
    { n \in 1..Len(menu.changed) :
        menu.changed[n][1] = i /\ ~menu.changed[n][3] }

\* C2: a slider changed by keyboard directions stays within [min, max];
\* a +1 step at max leaves it at max, a -1 step at min leaves it at min.
C2_SliderClamp ==
    \A i \in Sliders :
        LET o == menu.items[i]
        IN  /\ i \notin hist.moused => o.min <= o.value /\ o.value <= o.max
            /\ \A n \in KeyboardChanges(i) :
                 LET c == menu.changed[n]
                 IN  /\ c[4] = o.max /\ c[2] = 1 => c[5] = o.max
                     /\ c[4] = o.min /\ c[2] = -1 => c[5] = o.min

\* a +1 step was taken at max, and the slider is still at max.
C2_Witness ==
    \E i \in Sliders : \E n \in KeyboardChanges(i) :
        /\ menu.changed[n][4] = menu.items[i].max
        /\ menu.changed[n][2] = 1
        /\ menu.changed[n][5] = menu.items[i].max
        /\ menu.items[i].value = menu.items[i].max

\* C10 as stated: every toggle has 0 <= selected < len(options) and
\* value == options[selected].
C10_Original ==
    \A i \in Toggles :
        LET o == menu.items[i]
        IN  /\ 0 <= o.selected /\ o.selected < Len(o.options)
            /\ o.value = PyIndex(o.options, o.selected)

\* C10 amended: every toggle has -len(options) <= selected < len(options)
\* and value == options[selected], an index below 0 counting from the end
\* as Python does; once _change_option changed it, 0 <= selected.
C10_ToggleValue ==
    \A i \in Toggles :
        LET o == menu.items[i]
        IN  /\ -Len(o.options) <= o.selected /\ o.selected < Len(o.options)
            /\ o.value = PyIndex(o.options, o.selected)
            /\ i \in hist.touched => 0 <= o.selected

\* a toggle given a negative selected index that _change_option changed.
C10_Witness ==
    \E i \in Toggles :
        /\ hist.start[i].selected < 0 /\ i \in hist.touched
        /\ menu.items[i].selected >= 0
        /\ menu.items[i].value
             = menu.items[i].options[menu.items[i].selected + 1]

(***************************************************************************)
(* Properties of the input resolution (MenuSpec).                          *)
(***************************************************************************)
\* the last handle() was given one Escape key-down, on a live widget that
\* may be cancelled.
EscapeTick(n) ==
    hist.ticks = n /\ hist.escape /\ hist.was_alive /\ menu.can_cancel

C4_SelectResult ==
    menu.mode = "select" /\ menu.result.kind = "item" =>
        /\ menu.result.key
             = (IF menu.page >= 0 THEN menu.page * menu.max_items ELSE 0)
               + menu.selected
        /\ menu.result.key \in 0..(Len(menu.items) - 1)
        /\ menu.result.value = PyIndex(menu.items, menu.result.key)

(***************************************************************************)
(* Properties of the animation engine (SpriteSpec).                       *)
(***************************************************************************)
\* C5: queued animations start in the order they were queued.
C5_QueueFifo ==
    /\ Len(hist.started) <= Len(hist.queued)
    /\ \A i \in 1..Len(hist.started) : hist.started[i] = hist.queued[i]

\* C6: at the update that restores the held animation, frames, frame
\* index, loop mode and loop count are those playing when interrupt was
\* called, and held_animation is cleared.
C6_HeldRestored ==
    hist.restored =>
        /\ sprite.anim_frames = hist.snapshot[1]
        /\ sprite.anim_frame = hist.snapshot[2]
        /\ sprite.loop_type = hist.snapshot[3]
        /\ sprite.loop_count = hist.snapshot[4]
        /\ sprite.held_animation = <<>>

\* restored to frame 1 of a three frame animation with loops left.
C6_Witness ==
    /\ hist.restored
    /\ Len(sprite.anim_frames) = 3 /\ sprite.anim_frame = 1
    /\ sprite.loop_count = 2

\* the durations of an animation, summed
Durations(animation) == [i \in 1..Len(animation) |-> animation[i].duration]

\* a forward animation started with loop_count N > 0 and nothing held or
\* queued has been updated for at least N passes of its frames.
ForwardRunOver ==
    /\ hist.run # <<>> /\ hist.run[3] = "forward" /\ hist.run[2] > 0
    /\ sprite.speed = 1
    /\ SumSeq(hist.updates) >= hist.run[2] * SumSeq(Durations(hist.run[1]))

\* C7: such an animation is stopped on its last frame, and frame_index is
\* never >= len(frames) during it.
C7_ForwardCompletes ==
    /\ ForwardRunOver =>
         sprite.duration = 0
         /\ sprite.anim_frame = Len(sprite.anim_frames) - 1
    /\ hist.run # <<>> /\ hist.run[3] = "forward" /\ hist.run[2] > 0 =>
         sprite.anim_frame < Len(sprite.anim_frames)

\* a step of update() that calls _next_frame on a back_forth animation of
\* K frames with nothing held or queued.
BackForthStep(K) ==
    /\ hist'.op = "update" /\ hist'.stepped
    /\ sprite.loop_type = "back_forth" /\ Len(sprite.anim_frames) = K
    /\ sprite.held_animation = <<>> /\ sprite.anim_queue = <<>>

\* the frame a ping-pong over K frames shows after n transitions
PingPong(K, n) ==
    LET phase == n % (2 * K - 2)
    IN  IF phase < K THEN phase ELSE (2 * K - 2) - phase

\* the 2K-2 transitions of a cycle show 1, ..., K-1, K-2, ..., 0 and leave
\* loop_count alone; the next call of _next_frame is the cycle boundary.
BackForthCycle(K) ==
    BackForthStep(K) =>
        IF sprite.anim_frame < 2 * K - 2
        THEN /\ sprite'.anim_frame = sprite.anim_frame + 1
             /\ sprite'.frame
                  = sprite.anim_frames[PingPong(K, sprite.anim_frame + 1) + 1].frame
             /\ sprite'.loop_count = sprite.loop_count
        ELSE /\ sprite.anim_frame = 2 * K - 2
             /\ sprite'.loop_count = sprite.loop_count - 1
             /\ sprite'.frame = sprite.frame

\* C8 as stated: K >= 2 frames cycle in 2K-2 transitions, and with K == 1
\* there is never a transition nor a loop-count decrement.
C8_Original ==
    [][ /\ \A K \in 2..3 : BackForthCycle(K)
        /\ BackForthStep(1) =>
             /\ sprite'.frame = sprite.frame
             /\ sprite'.loop_count = sprite.loop_count ]_vars

\* C8 amended: K >= 2 frames cycle in 2K-2 transitions; with K == 1 the
\* frame shown never changes, and every elapsed frame duration is a cycle
\* boundary that decrements loop_count.
C8_BackForthCycle ==
    [][ /\ \A K \in 2..3 : BackForthCycle(K)
        /\ BackForthStep(1) =>
             /\ sprite'.frame = sprite.frame
             /\ sprite'.loop_count = sprite.loop_count - 1 ]_vars

\* on the way back of a three frame cycle, showing the middle frame.
C8_Witness ==
    /\ hist.op = "update" /\ hist.stepped
    /\ sprite.loop_type = "back_forth" /\ Len(sprite.anim_frames) = 3
    /\ sprite.anim_frame = 3
    /\ sprite.frame = sprite.anim_frames[2].frame

\* frames [f0, f1, f2] of 100 ms, forward, loop_count 2, set with nothing
\* held or queued, and then updated by `deltas`.
Scenario(deltas) ==
    /\ hist.run = <<Animation(1, 3), 2, "forward">>
    /\ sprite.speed = 1
    /\ hist.updates = deltas

\* C9 as stated: update(250) leaves frame_index 2; a further update(150)
\* leaves loop_count 1 and frame_index 0.
C9_Original ==
    /\ Scenario(<<250>>) => sprite.anim_frame = 2
    /\ Scenario(<<250, 150>>) =>
         sprite.loop_count = 1 /\ sprite.anim_frame = 0

\* C9 amended: an update makes one frame transition at most and drops the
\* time left over: update(250) leaves frame_index 1, a further update(150)
\* leaves frame_index 2, loop_count still 2.
C9_OneFramePerUpdate ==
    /\ Scenario(<<250>>) =>
         sprite.anim_frame = 1 /\ sprite.time_spent = 0
         /\ sprite.loop_count = 2
    /\ Scenario(<<250, 150>>) =>
         sprite.anim_frame = 2 /\ sprite.time_spent = 0
         /\ sprite.loop_count = 2

C9_Witness == Scenario(<<250, 150>>) /\ sprite.anim_frame = 2

(***************************************************************************)
(* Properties of the Options result protocol (MenuSpec).                   *)
(***************************************************************************)
\* C11: a handle() tick of an Options widget that mutates an option returns
\* (k, v, mapping) with k the key of the option mutated in that tick and
\* mapping[k]['value'] == v; closing through the button row returns
\* ('BUTTON', label of the focused button, mapping).
C11_OptionsResult ==
    menu.mode = "options" =>
        /\ menu.changed # <<>> =>
             /\ menu.result.kind = "change"
             /\ \A n \in 1..Len(menu.changed) :
                  menu.items[menu.changed[n][1]].key = menu.result.key
             /\ menu.result.value.kind = "value"
             /\ menu.result.value.value
                  = menu.items[PositionOf(menu.items, menu.result.key)].value
        /\ menu.result.kind = "BUTTON" =>
             /\ ~menu.alive
             /\ menu.result.value = PyIndex(menu.buttons, menu.bselected)

\* the record of the row focused, for a focus that is not the button row
FocusedOption ==
    menu.items[PositionOf(menu.items, PyIndex(menu.keys, menu.selected))]

\* the last handle() was given a confirm action by a live Options widget
Confirmed == menu.mode = "options" /\ hist.was_alive /\ hist.select > 0

\* C12: a confirm action while a Toggle or Slider row is focused mutates
\* that row's value and leaves alive true; a confirm action while an Item
\* row or the button row is focused sets alive false and produces the
\* result.
C12_ConfirmByRow ==
    Confirmed =>
        IF OnButtons(menu)
        THEN ~menu.alive /\ menu.result.kind = "BUTTON"
        ELSE IF FocusedOption.type \in {"OPTION", "SLIDER"}
        THEN /\ menu.alive /\ menu.raised = ""
             /\ \E n \in 1..Len(menu.changed) :
                  menu.items[menu.changed[n][1]].key = FocusedOption.key
        ELSE ~menu.alive /\ menu.result.kind = "item"

(***************************************************************************)
(* Properties of cancellation (MenuSpec).                                  *)
(***************************************************************************)
\* C13: a widget invoked with can_cancel=false never produces a cancel
\* outcome, whatever Escape, quit, outside-click or controller-cancel
\* events it is given; its alive becomes false only through a confirm.
C13_CancelNeedsCanCancel ==
    ~menu.can_cancel =>
        /\ hist.select >= 0
        /\ menu.result.kind # "cancel"
        /\ hist.was_alive /\ ~menu.alive => hist.select > 0

\* a widget that may not be cancelled, still alive after an Escape on its
\* third tick.
C13_Witness ==
    /\ ~menu.can_cancel /\ hist.ticks = 3 /\ hist.escape /\ ~hist.failed
    /\ menu.alive

(***************************************************************************)
(* Properties of the modal and modeless lifecycle (MenuSpec).              *)
(***************************************************************************)
\* C14: with modeless false control leaves the loop of the entry point
\* only after alive is false, and what the entry point returns is the
\* result of the handle() call that set alive to false; until then the
\* loop runs with alive true.  With modeless true the entry point returns
\* at once with alive true and control stays with the caller.
C14_Lifecycle ==
    /\ menu.pc \in {"returned", "raised"} => ~menu.alive
    /\ menu.pc = "returned" => menu.rvalue = menu.result
    /\ menu.pc = "loop" => menu.alive /\ menu.rvalue = None
    /\ menu.pc = "caller" /\ hist.ticks = 0 =>
         menu.alive /\ menu.result = None /\ menu.changed = <<>>

\* the frame an animation shows at the end of a pass
LastShown(animation, loop_type) ==
    IF loop_type = "forward" THEN animation[Len(animation)].frame
    ELSE animation[1].frame

\* C21: an animation started by set_animation with loop_count 0, nothing
\* held or queued, is stopped on the last frame of its first pass once the
\* end of that pass is crossed; one started with loop_count -1 is never
\* stopped.
C21_LoopCountMeaning ==
    /\ (hist.run # <<>> /\ hist.run[2] = 0 /\ sprite.loop_count # 0) =>
           /\ sprite.duration = 0
           /\ sprite.frame = LastShown(hist.run[1], hist.run[3])
    /\ (hist.run # <<>> /\ hist.run[2] = -1) => sprite.duration # 0

\* C23: interrupt(Z) called while the animation X of an earlier interrupt
\* still plays holds X's state: X's frames, its frame index and loop mode,
\* and loop count 0, in place of the snapshot held before; the update that
\* ends Z resumes X with that state and nothing is held any more.
C23_NestedInterrupt ==
    [][ /\ (hist'.op = "interrupt" /\ ~hist'.empty
             /\ hist.interrupted # <<>>) =>
              sprite'.held_animation =
                 <<hist.interrupted[1], sprite.anim_frame,
                   sprite.loop_type, 0>>
        /\ (hist'.restored /\ hist.lost # <<>>) =>
              /\ <<sprite'.anim_frames, sprite'.anim_frame,
                    sprite'.loop_type, sprite'.loop_count>> = hist.snapshot
              /\ hist.snapshot[1] = hist.interrupted[1]
              /\ sprite'.held_animation = <<>> ]_vars

\* the update that ends a nested interrupt has resumed the animation of
\* the first interrupt in the middle of it
C23_Witness ==
    /\ hist.op = "update" /\ hist.restored /\ hist.lost # <<>>
    /\ sprite.anim_frame > 0
    /\ sprite.anim_frames # hist.lost[1][1]

\* the frame timer runs out on the last frame of a pass: the next
\* _next_frame ends the cycle.
CycleBoundary(s) ==
    IF s.loop_type = "forward"
    THEN s.anim_frame + 1 >= Len(s.anim_frames)
    ELSE s.anim_frame + 1 >= 2 * Len(s.anim_frames) - 1

FreeBoundary ==
    /\ hist'.op = "update" /\ hist'.stepped
    /\ CycleBoundary(sprite)
    /\ sprite.held_animation = <<>>
    /\ sprite.anim_queue = <<>>

\* every queued callback is called, in the order of registration, and the
\* callback queue is left empty
AllFired ==
    /\ sprite'.called = sprite.called \o sprite.event_queue
    /\ sprite'.event_queue = <<>>

\* no callback has been called twice
FiredOnce(s) ==
    \A i, j \in 1..Len(s.called) : s.called[i] = s.called[j] => i = j

\* C25: callbacks are called only in an update that ends a cycle with
\* nothing held, no animation queued and loop_count <= 0 after the
\* decrement; that update calls all of them in the order of registration
\* and empties the callback queue, and no callback is ever called twice.
C25_CallbacksAtFinish ==
    [][ /\ (FreeBoundary /\ sprite.loop_count - 1 <= 0) => AllFired
        /\ sprite'.called # sprite.called =>
               FreeBoundary /\ sprite.loop_count - 1 <= 0
        /\ FiredOnce(sprite') ]_vars

\* an update has just called both callbacks, in order, at the end of an
\* animation
C25_Witness ==
    /\ hist.op = "update" /\ hist.stepped
    /\ sprite.called = Callbacks
    /\ sprite.event_queue = <<>>
    /\ sprite.duration = 0

\* C25 as stated: every update that ends a cycle with nothing held and no
\* animation queued calls all the callbacks, whatever the loop count.
C25_Original ==
    [][ /\ FreeBoundary => AllFired
        /\ sprite'.called # sprite.called => FreeBoundary
        /\ FiredOnce(sprite') ]_vars

\* the step is an update whose frame transition applied the keyframe kf
Applied(kf) ==
    /\ hist'.op = "update" /\ hist'.stepped
    /\ sprite'.raised = "" /\ sprite'.time_spent = 0
    /\ \E i \in 1..Len(sprite'.anim_frames) : sprite'.anim_frames[i] = kf
    /\ kf.frame = sprite'.frame

ChannelNames == {"velocity", "rotation", "scaling", "fading", "coloring"}

\* C26: a frame transition leaves every channel that its keyframe does not
\* mention as it was.
C26_ChannelsPersist ==
    [][ \A i \in 1..Len(sprite'.anim_frames) :
          Applied(sprite'.anim_frames[i]) =>
             \A c \in ChannelNames \ DOMAIN sprite'.anim_frames[i] :
                sprite'[c] = sprite[c] ]_vars

\* C27: a frame transition leaves angle, scale, alpha and position as the
\* update found them after its channels acted, each unless the keyframe
\* gives it.
C27_UnspecifiedKept ==
    [][ \A i \in 1..Len(sprite'.anim_frames) :
          Applied(sprite'.anim_frames[i]) =>
             \E delta \in Deltas :
                /\ "angle" \notin DOMAIN sprite'.anim_frames[i] =>
                      sprite'.angle = Moved(Call(sprite), delta).angle
                /\ "scale" \notin DOMAIN sprite'.anim_frames[i] =>
                      sprite'.scale = Moved(Call(sprite), delta).scale
                /\ "alpha" \notin DOMAIN sprite'.anim_frames[i] =>
                      sprite'.alpha = Moved(Call(sprite), delta).alpha
                /\ "pos" \notin DOMAIN sprite'.anim_frames[i] =>
                      /\ sprite'.x = Moved(Call(sprite), delta).x
                      /\ sprite'.y = Moved(Call(sprite), delta).y ]_vars

\* the last update called _next_frame: the frame index or the loop count
\* is not what the update found
Transitioned ==
    <<sprite.anim_frame, sprite.loop_count>> # <<hist.index, hist.loops>>

\* the last update only let the frame timer run
TimerRan ==
    /\ ~Transitioned
    /\ sprite.time_spent = hist.e
    /\ sprite.duration = hist.d

\* C28: at speed 1 an update that brings the frame timer to e on a frame
\* of duration D makes no frame transition exactly when D = 0 or e <= D,
\* and makes one when D > 0 and e > D; e = D makes none.
C28_TransitionThreshold ==
    hist.op = "update" =>
       IF hist.d = 0 \/ hist.e <= hist.d THEN TimerRan ELSE Transitioned

\* an update has brought the frame timer to exactly the frame duration
C28_Witness ==
    /\ hist.op = "update" /\ hist.d > 0 /\ hist.e = hist.d
    /\ sprite.time_spent = sprite.duration

\* C28 as stated: e >= D makes a transition, e = D included.
C28_Original ==
    hist.op = "update" =>
       IF hist.d = 0 \/ hist.e < hist.d THEN TimerRan ELSE Transitioned

\* ceil(a / b) for b > 0
CeilDiv(a, b) == (a + b - 1) \div b

\* C29: after a handle() of a paged list of L items, P to a page, the
\* page count the Left and Right keys wrap at is ceil(L / P), the page
\* shown is one of them and has an item, and the pages shown by
\* ceil(L / P) + 1 Right keys in a row hold every item.
C29_PagingCoversItems ==
    (hist.key # "" /\ menu.page >= 0) =>
       /\ PageCount(Len(menu.items), menu.max_items)
              = CeilDiv(Len(menu.items), menu.max_items)
       /\ menu.page < CeilDiv(Len(menu.items), menu.max_items)
       /\ PageItems(menu, menu.page) # <<>>
       /\ hist.rights > CeilDiv(Len(menu.items), menu.max_items) =>
              hist.seen = { menu.items[i] : i \in 1..Len(menu.items) }

\* C30: after every handle() of a paged list, selected is the index of a
\* row of the page now current; the Up key on row 0 moves to the last row
\* drawn and the Down key on the last row drawn moves to row 0.
C30_FocusInRange ==
    hist.key # "" =>
       /\ menu.selected \in 0..(Len(PageItems(menu, menu.page)) - 1)
       /\ (hist.key = "K_UP" /\ ~hist.ignored /\ hist.from = 0) =>
              menu.selected = hist.rows - 1
       /\ (hist.key = "K_DOWN" /\ ~hist.ignored
              /\ hist.from = hist.rows - 1) => menu.selected = 0

\* C31: the buffer of an 'int' input box holds only decimal digits, that
\* of a 'float' input box only digits and at most one ".".
C31_BufferFiltered ==
    /\ menu.input_type \in {"int", "float"} =>
          \A n \in 1..Len(menu.textinput) :
             menu.textinput[n] \in Digits \cup
                (IF menu.input_type = "float" THEN {"."} ELSE {})
    /\ menu.input_type = "float" =>
          Len(menu.textinput) - Len(Undotted(menu.textinput)) <= 1

\* C32: in one handle() tick the input is resolved before the widget is
\* drawn and before an option is changed: in the steps of the last
\* handle(), no "draw" and no "change" comes before the "input".
C32_InputBeforeDraw ==
    \A i, j \in 1..Len(menu.steps) :
        menu.steps[i] = "input" /\ menu.steps[j] \in {"draw", "change"}
            => i < j

\* C33: for every batch of events a live widget is given, the move
\* _get_input returns has each component in {-1, 0, 1} and at most one
\* axis non-zero, and the select it returns is -1, 0 or 1.
C33_InputShape ==
    menu.alive /\ hist.ticks < MaxTicks =>
        \A inp \in InputsOf(menu) :
            LET g == InputOf(menu, inp)
            IN  g.m.raised = "" =>
                    /\ g.x \in -1..1
                    /\ g.y \in -1..1
                    /\ g.x = 0 \/ g.y = 0
                    /\ g.select \in -1..1

\* C33, as the code has it: for every batch of events a live widget is
\* given, each component of the move _get_input returns is -1, 0 or 1
\* and the select it returns is -1, 0 or 1; a batch can set both axes.
C33_MoveComponents ==
    menu.alive /\ hist.ticks < MaxTicks =>
        \A inp \in InputsOf(menu) :
            LET g == InputOf(menu, inp)
            IN  g.m.raised = "" =>
                    /\ g.x \in -1..1
                    /\ g.y \in -1..1
                    /\ g.select \in -1..1

\* a widget that has been handled and a batch that moves it on both axes
C33_Witness ==
    /\ menu.alive
    /\ hist.ticks \in 1..(MaxTicks - 1)
    /\ \E inp \in InputsOf(menu) :
           LET g == InputOf(menu, inp)
           IN  g.m.raised = "" /\ g.x # 0 /\ g.y # 0

\* C34: every slider record _process_options produces with min <= max
\* has min <= value <= max, whether the descriptor came with a value or
\* the default value was used.
C34_SliderInRange ==
    hist.called /\ menu.raised = "" =>
        \A i \in 1..Len(menu.items) :
            LET o == menu.items[i]
            IN  o.type = "SLIDER" /\ o.min <= o.max =>
                    o.min <= o.value /\ o.value <= o.max

\* C35: in options mode with can_cancel, a handle() whose input resolved
\* to a cancel closes the widget and returns None whichever row has the
\* focus, and a ('BUTTON', label, mapping) result comes from a confirm
\* only.
C35_CancelReturnsNone ==
    hist.ticks > 0 /\ menu.mode = "options" /\ hist.was_alive
    /\ menu.raised = "" =>
        /\ menu.can_cancel /\ hist.select < 0 =>
               ~menu.alive /\ menu.result = None
        /\ menu.result.kind = "BUTTON" => hist.select > 0

\* C36: the descriptors of the caller are never altered: after options()
\* and after every handle(), the list the caller passed and the dicts in
\* it are what they were at the call.
C36_DescriptorsKept ==
    menu.mode = "options" => CallerDescriptors(menu) = menu.given

\* a toggle or slider that came as a dict has been changed by handle()
C36_Witness ==
    /\ menu.mode = "options"
    /\ \E i \in hist.touched :
           /\ menu.given[menu.items[i].key + 1].form = "dict"
           /\ menu.items[i].value # hist.start[i].value

\* C39: a dialog invoked without buttons runs its ticks without an
\* exception, a confirm after the first tick closes it with a result, and
\* no dialog divides by an empty button count.
C39_ButtonlessDialog ==
    menu.mode = "dialog" =>
        /\ menu.raised # "ZeroDivisionError"
        /\ menu.buttons_none =>
               /\ menu.raised = ""
               /\ hist.ticks > 1 /\ hist.was_alive /\ hist.select > 0 =>
                      ~menu.alive /\ menu.result # None

\* the fields of the widget itself, without what the model records of
\* the last call
Widget(m) ==
    [m EXCEPT !.result = None, !.raised = "", !.changed = <<>>,
              !.steps = <<>>]

\* C37: a handle() on a closed widget, in any mode and for any events,
\* returns the empty result, (None, None, None) in input mode and None
\* in the others, raises nothing and leaves every field of the widget as
\* it was.
C37_ClosedInert ==
    [][ ~menu.alive /\ menu.mode # "" =>
            /\ menu'.result = (IF menu.mode = "input" THEN None3 ELSE None)
            /\ menu'.raised = ""
            /\ Widget(menu') = Widget(menu) ]_vars

\* handle() has been called on a widget that was closed
C37_Witness ==
    /\ menu.mode # ""
    /\ hist.ticks > 1
    /\ ~hist.was_alive
    /\ ~menu.alive

\* the index of the frame shown at frame index i of an animation of n
\* frames: on the way back of a back_forth cycle the index counts on.
ShownIndex(n, i) == IF i < n THEN i ELSE BackIndex(n, i)

\* C38: after the update that restores the animation held while an
\* interrupting animation played, the image, the
\* frame duration and the frame timer are those of the frame of the
\* restored animation at the restored index, its timer at 0; a sprite
\* that was stopped when interrupt was called is stopped again.
C38_RestoredFrameShown ==
    [][ hist.interrupted # <<>> /\ hist'.op = "update" /\ hist'.restored
        /\ sprite'.raised = "" =>
            IF hist.held_stopped THEN sprite'.duration = 0
            ELSE LET frames == hist.snapshot[1]
                     i == ShownIndex(Len(frames), hist.snapshot[2])
                 IN  ~PyIndexError(frames, i) =>
                         /\ sprite'.frame = PyIndex(frames, i).frame
                         /\ sprite'.duration = PyIndex(frames, i).duration
                         /\ sprite'.time_spent = 0 ]_vars

\* C22: after every update() that returns, on a sprite with a non-empty
\* frame list, 0 <= anim_frame < len(anim_frames).
C22_FrameIndexInRange ==
    (hist.op = "update" /\ sprite.raised = "" /\ sprite.anim_frames # <<>>)
       => sprite.anim_frame \in 0..(Len(sprite.anim_frames) - 1)

\* what update() may change: frame index, frame timer, loop count, the
\* queues, the held snapshot, the frame shown and its duration, position,
\* angle, scale and alpha
Playing(s) ==
    <<s.anim_frame, s.time_spent, s.loop_count, s.anim_queue, s.event_queue,
      s.held_animation, s.anim_frames, s.frame, s.duration,
      s.x, s.y, s.angle, s.scale, s.alpha>>

\* C19: update(delta) on a sprite whose speed is 0 changes nothing.
C19_SpeedZeroFreeze ==
    [][ (hist'.op = "update" /\ sprite.speed = 0)
           => Playing(sprite') = Playing(sprite) ]_vars

\* a sprite of speed 0, on a timed frame and with its channels set, was
\* updated
C19_Witness ==
    /\ hist.op = "update" /\ sprite.speed = 0
    /\ sprite.duration > 0 /\ sprite.velocity # Off
    /\ Active(sprite.rotation) /\ Active(sprite.fading)

\* the kinematic channels of a sprite
Channels(s) == <<s.velocity, s.rotation, s.scaling, s.fading, s.coloring>>

\* C20: stop() clears every kinematic channel and sets the frame duration
\* to 0 while the image shown, the frame list and the position stay; after
\* it, until set_animation, queue_animation, interrupt or set_frame is
\* called, no update changes the frame index or the position.
C20_StopFreezes ==
    [][ /\ hist'.op = "stop" =>
              /\ Channels(sprite') = <<Off, Off, Off, Off, Off>>
              /\ sprite'.duration = 0
              /\ sprite'.frame = sprite.frame
              /\ sprite'.anim_frames = sprite.anim_frames
              /\ sprite'.x = sprite.x /\ sprite'.y = sprite.y
        /\ (hist.stopped # "no" /\ hist'.op = "update") =>
              /\ sprite'.anim_frame = sprite.anim_frame
              /\ sprite'.x = sprite.x /\ sprite'.y = sprite.y ]_vars

\* a sprite stopped while it was moving on a timed frame has been updated
\* since, its clock running
C20_Witness ==
    /\ hist.stopped = "moving" /\ hist.op = "update"
    /\ sprite.speed # 0 /\ sprite.time_spent > 0
    /\ sprite.x # 0

\* the animation state of a sprite: frames, frame index, loop count and
\* held snapshot
AnimState(s) ==
    <<s.anim_frames, s.anim_frame, s.loop_count, s.held_animation>>

\* the step is a call of set_animation, queue_animation or interrupt that
\* is given an empty frame list
EmptyCall == hist'.empty

\* C16: a call that is given an empty frame list raises at that call and
\* leaves frames, frame index, loop count and held snapshot as they were;
\* no update raises afterwards on account of it.
C16_EmptyFailsFast ==
    [][ /\ EmptyCall => /\ sprite'.raised # ""
                         /\ AnimState(sprite') = AnimState(sprite)
        /\ (hist'.op = "update" /\ sprite'.raised # "")
              => \A q \in 1..Len(sprite.anim_queue) :
                    sprite.anim_queue[q][1] # NoFrames ]_vars

\* the focus and option state of a widget
FocusState(m) == <<m.selected, m.bselected, m.page, m.items>>

\* the step is a pass of the modal loop in which the background callable
\* raised
BackgroundRaised == menu.pc = "loop" /\ menu'.raised = "CallbackError"

\* C17: when the background callable raises in a tick of a modal session,
\* the error does not leave the tick: the modal loop keeps running, and
\* alive, focus and options are as they were.
C17_BackgroundContained ==
    [][ BackgroundRaised => /\ menu'.pc = "loop"
                            /\ menu'.alive = menu.alive
                            /\ FocusState(menu') = FocusState(menu) ]_vars

(***************************************************************************)
(* Properties of the normalisation of descriptors (OptionsSpec).           *)
(***************************************************************************)
\* a malformed descriptor: a dict with an unknown or missing type, a value
\* that cannot be iterated, an empty sequence, a toggle with a choice that
\* is not a str or without its selected index
Malformed(d) ==
    \/ d.form = "dict"
          /\ d.type \notin {"OPTION", "SLIDER", "LABEL", "ITEM", "SPACER"}
    \/ d.form = "none"
    \/ d.form = "seq" /\ d.options = <<>> /\ d.tail = 0
    \/ d.nonstr
    \/ d.form = "dict" /\ d.type = "OPTION" /\ "selected" \notin d.has

\* the keys of the well-formed descriptors of a list, in order
WellFormedKeys(given) ==
    SelectSeq([i \in 1..Len(given) |-> i - 1],
              LAMBDA k : ~Malformed(given[k + 1]))

\* C18: options() does not raise on a list with malformed descriptors;
\* the normalised mapping has the well-formed descriptors, in order, each
\* under its original key, and no malformed one.
C18_MalformedSkipped ==
    hist.called =>
        /\ menu.raised = ""
        /\ [n \in 1..Len(menu.items) |-> menu.items[n].key]
              = WellFormedKeys(hist.given)

(***************************************************************************)
(* Properties of the input box (InputSpec).                                *)
(***************************************************************************)
\* the buffer of box m is not a number of its input type
Unparsable(m) ==
    \/ m.input_type = "int" /\ ~IntParses(m.textinput)
    \/ m.input_type = "float" /\ ~FloatParses(m.textinput)

\* the last handle() confirmed an 'int' or 'float' box that has buttons
\* while its buffer was not a number
UnparsableConfirmed ==
    /\ menu.mode = "input" /\ hist.ticks > 0 /\ hist.was_alive
    /\ hist.select = 1
    /\ menu.buttons # <<>>
    /\ Unparsable(menu)

====
